---- MODULE Spec2Model ----
(***************************************************************************)
(* The useChat hook of the web UI (src/ui/vite.config.ts, lines 151-537):   *)
(* the per-session message cache, the registry of cancellable streams, the  *)
(* React state it publishes (sessionId, messages, isLoading), and the       *)
(* session store it drives.                                                 *)
(*                                                                          *)
(* One action per handler.  A user action (sendMessage up to its first      *)
(* await, resetSession, loadSession up to its fetch) runs inside a discrete *)
(* DOM event, whose state updates React renders synchronously, effects      *)
(* included, so these actions end with activeSessionRef = sessionId.  The   *)
(* continuation of an await (a stream event, the end of a stream, the       *)
(* completion of a transcript fetch) runs outside any DOM event: its state  *)
(* updates are rendered by a later task, and the effect of lines 176-179    *)
(* that copies sessionId into activeSessionRef is the action Commit.        *)
(*                                                                          *)
(* abort() rejects the pending fetch or read of the stream at once, so the  *)
(* AbortError branch of an aborted stream runs as a microtask, after the    *)
(* handler that called abort() has returned and before any other task: no   *)
(* other action is taken while an aborted stream has not run AbortCatch.    *)
(***************************************************************************)
EXTENDS Integers, Sequences, FiniteSets, TLC

\* Bounds of the model.
MaxStreams == 2
MaxEvents == 2
MaxFetch == 1
\* events of the one response of the specification Assembly
MaxAssemblyEvents == 4
\* the frames of one response body
MaxFrames == 3
\* the events of the response whose objects are followed
MaxSharedEvents == 3
\* the messages of a transcript
MaxTranscript == 2
\* the toasts raised
MaxToasts == 2
\* the responses submitted
MaxSubmissions == 2

\* null / undefined
NONE == "null"
\* the provisional marker
NewKey == "__new__"
Sessions == {"A", "B"}
Keys == Sessions \cup {NewKey}
StreamIds == 1..MaxStreams
Frags == {"p"}
ToolIds == {"T"}
\* the sessions the server holds when the page is opened (up to renaming)
InitialServers == {{}, {"B"}, Sessions}
INTERRUPTED == "*(stream interrupted)*"
ERROR_EVENT == "Error: event"
ERROR_TRANSPORT == "Error: transport"

VARIABLES
    sessionId,          \* React state: the session shown
    messages,           \* React state: the visible message list
    isLoading,          \* React state: the loading indicator
    activeSessionRef,   \* activeSessionRef.current
    messagesCacheRef,   \* messagesCacheRef.current: key -> message list
    streamsRef,         \* streamsRef.current: key -> stream whose controller is registered (0: none)
    calls,              \* the locals of each sendMessage call (one stream each)
    fetches,            \* the transcript fetches of loadSession in flight
    nFetch,             \* number of transcript fetches issued
    nEvents,            \* number of stream events processed
    status,             \* useSessionStore: sessions[id].status
    server,             \* the session ids the server knows
    log,                \* history: the stream events processed, in order
    thrown,             \* history: the operations whose promise was rejected
    wire,               \* read loop: the frames the server wrote to the body
    delivered,          \* read loop: the number of bytes of the body read
    decoder,            \* read loop: the bytes the TextDecoder holds back
    buffer,             \* read loop: the line buffer
    dispatched,         \* read loop: the payloads parsed, in order
    heap,               \* objects: the block and tool objects allocated
    shared,             \* objects: the locals of sendMessage, as references
    sharedEntry,              \* objects: the list the cache holds for the session
    snapshots,          \* objects: the lists handed out so far
    transcripts,        \* server: the messages recorded for each session
    pendingAction,      \* useSessionStore: sessions[id].pendingAction
    toast,              \* ChatInterface state: the toast shown
    timers,             \* ChatInterface: the auto-dismiss timers not yet fired
    nToasts,            \* history: the number of toasts raised
    knownSessionIds,    \* ChatInterface state: the sessions subscribed to
    eventSourceRef,     \* useNotifications: the state of eventSourceRef.current
    reconnectTimeoutRef, \* useNotifications: a reconnection timer is pending
    mounted,            \* ChatInterface is mounted
    isSubmitting,       \* PendingActionModal state
    submissions,        \* the responses submitted and not yet answered
    answers,            \* history: the answers to the responses submitted
    progressMessage,    \* useSessionStore: sessions[id].progressMessage
    apiSession,         \* SessionSidebar: a session as GET /api/sessions returns it
    sidebarSession      \* SessionSidebar state: the session as it is listed

\* the read loop of one response body (lines 257-271)
decoderVars == <<wire, delivered, decoder, buffer, dispatched>>

\* the objects of one response: blocks and tools by reference (304-391)
sharingVars == <<heap, shared, sharedEntry, snapshots>>

\* pending actions, toasts and the notification channel (ChatInterface.tsx,
\* useNotifications.ts, PendingActionModal.tsx)
attentionVars == <<pendingAction, toast, timers, nToasts, knownSessionIds,
                   eventSourceRef, reconnectTimeoutRef, mounted, isSubmitting,
                   submissions, answers>>

\* the list of sessions of the sidebar (SessionSidebar.tsx)
sidebarVars == <<apiSession, sidebarSession>>

\* the state outside the hook's sessions and streams
auxVars == <<decoderVars, sharingVars, transcripts, attentionVars, sidebarVars,
             progressMessage>>

\* what the actions of one part leave alone
besidesDecoder == <<sharingVars, transcripts, attentionVars, sidebarVars,
                    progressMessage>>
besidesSharing == <<decoderVars, transcripts, attentionVars, sidebarVars,
                    progressMessage>>
besidesAttention == <<decoderVars, sharingVars, transcripts, sidebarVars,
                      progressMessage>>
besidesSidebar == <<decoderVars, sharingVars, transcripts, attentionVars,
                    progressMessage>>

\* the hook's sessions and streams, and the session store
chatVars == <<sessionId, messages, isLoading, activeSessionRef,
              messagesCacheRef, streamsRef, calls, fetches, nFetch, nEvents,
              status, server, log, thrown>>

vars == <<chatVars, auxVars>>

----------------------------------------------------------------------------
\* Messages, content blocks and tool calls (src/ui/src/types/chat.ts).  The
\* name and the input of a tool call are opaque to the hook and left out.

ABSENT == "absent"
NoTool == [id |-> NONE, result |-> ABSENT, isError |-> ABSENT]
NewTool(t) == [id |-> t, result |-> ABSENT, isError |-> ABSENT]
TextBlock(c) == [type |-> "text", content |-> c, tool |-> NoTool]
ToolBlock(tool) == [type |-> "tool_use", content |-> <<>>, tool |-> tool]

UserId(i) == [k |-> "user", n |-> i]
AssistantId(i) == [k |-> "assistant", n |-> i]
ErrorId(i) == [k |-> "error", n |-> i]
\* the j-th identifier drawn by the transcript fetch n (line 518)
HistId(n, j) == [k |-> "hist", n |-> 10 * n + j]

UserMessage(i) ==
    [id |-> UserId(i), role |-> "user", content |-> <<"hello">>,
     contentBlocks |-> <<>>, toolCalls |-> <<>>]
ErrorMessage(i) ==
    [id |-> ErrorId(i), role |-> "assistant", content |-> <<ERROR_TRANSPORT>>,
     contentBlocks |-> <<>>, toolCalls |-> <<>>]
HistMessage(id, role, content) ==
    [id |-> id, role |-> role, content |-> content,
     contentBlocks |-> <<>>, toolCalls |-> <<>>]

\* findIndex((m) => m.id === id), 0 when there is none
FindIndex(msgs, id) ==
    IF \E k \in 1..Len(msgs) : msgs[k].id = id
    THEN CHOOSE k \in 1..Len(msgs) :
            /\ msgs[k].id = id
            /\ \A j \in 1..(k - 1) : msgs[j].id # id
    ELSE 0

\* the updater of the text branch: update the assistant message, or push it
UpsertText(prev, i, content, blocks) ==
    LET k == FindIndex(prev, AssistantId(i)) IN
    IF k > 0
    THEN [prev EXCEPT ![k].content = content, ![k].contentBlocks = blocks]
    ELSE Append(prev, [id |-> AssistantId(i), role |-> "assistant",
                       content |-> content, contentBlocks |-> blocks,
                       toolCalls |-> <<>>])

\* the updater of the tool_use and tool_result branches
PatchTools(prev, i, tools, blocks) ==
    LET k == FindIndex(prev, AssistantId(i)) IN
    IF k > 0
    THEN [prev EXCEPT ![k].toolCalls = tools, ![k].contentBlocks = blocks]
    ELSE prev

\* the updater of the error branch
PatchContent(prev, i, content) ==
    LET k == FindIndex(prev, AssistantId(i)) IN
    IF k > 0 THEN [prev EXCEPT ![k].content = content] ELSE prev

\* the updater of the AbortError branch
PatchInterrupted(prev, i, content, blocks) ==
    LET k == FindIndex(prev, AssistantId(i)) IN
    IF k > 0
    THEN [prev EXCEPT ![k].content = Append(content, INTERRUPTED),
                      ![k].contentBlocks = blocks]
    ELSE prev

----------------------------------------------------------------------------
\* The locals of one sendMessage call.  inited records that the stream has
\* delivered its session_init; nav is a history field: whether the user has
\* switched away from the stream's session while it was running ("away"),
\* has come back to it since ("back"), or left it after it ended ("left").

NoCall ==
    [pc |-> "idle", currentSessionId |-> NONE, streamKey |-> NONE,
     resolvedSessionId |-> NONE, assistantContent |-> <<>>, toolCalls |-> <<>>,
     contentBlocks |-> <<>>, currentTextBlockIndex |-> 0, inited |-> FALSE,
     nav |-> "here"]

\* A stream is live when it was opened and has neither been cancelled nor ended.
Live(i) == calls[i].pc = "open"

\* the call a new sendMessage starts
NextCall == Cardinality({i \in StreamIds : calls[i].pc # "idle"}) + 1

\* A message of a transcript as the server returns it: a role and a content
\* that is a string (array FALSE, value its text, empty for null) or an
\* array of parts (array TRUE), each part with a type and a text.
RawString(text) == [array |-> FALSE, value |-> text]
RawArray(parts) == [array |-> TRUE, value |-> parts]
RawPart(type, text) == [type |-> type, text |-> text]
RawMessage(role, content) == [role |-> role, content |-> content]

\* each session has one user message, a string naming the session
PlainTranscripts ==
    transcripts = [s \in Sessions |-> <<RawMessage("user", RawString(<<s>>))>>]

\* pendingAction: null, and the field of an entry that has none
NOACTION == [id |-> NONE, type |-> NONE]
UNSET == [id |-> "absent", type |-> "absent"]
\* toast: null
NOTOAST == [sessionId |-> NONE, n |-> 0]

\* ChatInterface has just been mounted: no session is known, the store is
\* empty, no toast is shown
JustMounted ==
    /\ pendingAction = [s \in Sessions |-> UNSET]
    /\ toast = NOTOAST
    /\ timers = {}
    /\ nToasts = 0
    /\ knownSessionIds = {}
    /\ eventSourceRef = NONE
    /\ reconnectTimeoutRef = FALSE
    /\ mounted = TRUE
    /\ isSubmitting = FALSE
    /\ submissions = {}
    /\ answers = {}

\* the sidebar has not been opened
SidebarClosed ==
    /\ apiSession = [created_at |-> <<>>, modified_at |-> <<>>]
    /\ sidebarSession = [listed |-> FALSE]

\* no response body is being read
NoBody ==
    /\ wire = <<>>
    /\ delivered = 0
    /\ decoder = <<>>
    /\ buffer = <<>>
    /\ dispatched = <<>>

\* no object of a response has been allocated
NoObjects ==
    /\ heap = <<>>
    /\ shared = [assistantContent |-> <<>>, toolCalls |-> <<>>,
                 contentBlocks |-> <<>>, currentTextBlockIndex |-> 0]
    /\ sharedEntry = <<>>
    /\ snapshots = {}

ChatInit ==
    /\ sessionId = NONE
    /\ messages = <<>>
    /\ isLoading = FALSE
    /\ activeSessionRef = NONE
    /\ messagesCacheRef = [k \in Keys |-> <<>>]
    /\ streamsRef = [k \in Keys |-> 0]
    /\ calls = [i \in StreamIds |-> NoCall]
    /\ fetches = {}
    /\ nFetch = 0
    /\ nEvents = 0
    /\ status = [s \in Sessions |-> ABSENT]
    /\ progressMessage = [s \in Sessions |-> ABSENT]
    /\ server \in InitialServers
    /\ log = <<>>
    /\ thrown = {}

Init ==
    /\ ChatInit
    /\ NoBody
    /\ NoObjects
    /\ PlainTranscripts
    /\ JustMounted
    /\ SidebarClosed


----------------------------------------------------------------------------
\* updateSessionMessages (lines 187-199): the cache entry, and the visible
\* list when the target is the session shown.

CacheAfter(target, updated) ==
    [messagesCacheRef EXCEPT ![target] = updated]

\* an updater that publishes to the visible list whatever session is viewed
VisibleAfterAlways(target, updated) == updated

\* only update React state if this session is currently being viewed
VisibleAfter(target, updated) ==
    IF activeSessionRef = target THEN updated ELSE messages

UpdateSessionMessages(target, updated) ==
    /\ messagesCacheRef' = CacheAfter(target, updated)
    /\ messages' = VisibleAfter(target, updated)

\* useSessionStore.updateSessionStatus
UpdateSessionStatus(id, value) == [status EXCEPT ![id] = value]

\* AbortController.abort(): a stream that has ended is not affected
Abort(cs, j) ==
    IF j # 0 /\ cs[j].pc = "open" THEN [cs EXCEPT ![j].pc = "aborted"] ELSE cs

\* a target taken from the session that is active when the event is processed
TargetActive(c) ==
    IF activeSessionRef # NONE THEN activeSessionRef ELSE NewKey

\* const targetId = resolvedSessionId || "__new__"
TargetId(c) ==
    IF c.resolvedSessionId # NONE THEN c.resolvedSessionId ELSE NewKey

\* an aborted stream has not yet run its AbortError branch
AbortPending == \E i \in StreamIds : calls[i].pc = "aborted"

\* The user acts on a rendered interface: the effects of the last render ran.
Rendered == activeSessionRef = sessionId

\* the effect that keeps activeSessionRef in sync with sessionId
Commit ==
    /\ ~AbortPending
    /\ activeSessionRef # sessionId
    /\ activeSessionRef' = sessionId
    /\ UNCHANGED <<nEvents, log, thrown>>
    /\ UNCHANGED <<sessionId, messages, isLoading, messagesCacheRef, streamsRef,
                   calls, fetches, nFetch, status, server>>
    /\ UNCHANGED auxVars

----------------------------------------------------------------------------
\* sendMessage, up to its first await (lines 201-248).  ChatInput submits only
\* while the input is enabled, that is while isLoading is false.

\* cancel any existing stream for this session only
CancelExisting(cur) ==
    IF cur # NONE THEN Abort(calls, streamsRef[cur]) ELSE calls

\* const streamKey = currentSessionId || "__new__"
StreamKey(cur) == IF cur # NONE THEN cur ELSE NewKey

SendMessage ==
    /\ ~AbortPending
    /\ Rendered
    /\ ~isLoading
    /\ NextCall <= MaxStreams
    /\ LET i == NextCall
           cur == sessionId
       IN /\ calls' = [CancelExisting(cur) EXCEPT ![i] =
                          [NoCall EXCEPT !.pc = "open",
                                         !.currentSessionId = cur,
                                         !.streamKey = StreamKey(cur),
                                         !.resolvedSessionId = cur]]
          /\ streamsRef' = [streamsRef EXCEPT ![StreamKey(cur)] = i]
          /\ IF cur # NONE
             THEN UpdateSessionMessages(cur, Append(messagesCacheRef[cur], UserMessage(i)))
             ELSE /\ messages' = Append(messages, UserMessage(i))
                  /\ UNCHANGED messagesCacheRef
    /\ isLoading' = TRUE
    /\ UNCHANGED <<nEvents, log, thrown>>
    /\ UNCHANGED <<sessionId, activeSessionRef, fetches, nFetch, status, server>>
    /\ UNCHANGED auxVars

----------------------------------------------------------------------------
\* The events of a stream (lines 260-418).  For each event kind, On... is the
\* branch of the loop body that handles it, and ...Event is that branch run
\* on an event read from an open stream.

\* an entry of the history of events
Event(i, type, arg, isError) ==
    [stream |-> i, type |-> type, arg |-> arg, isError |-> isError]

\* stream i has delivered an event
Started(i) == \E k \in 1..Len(log) : log[k].stream = i

\* a read that still delivers a chunk after the stream was cancelled
CanReadCancelled(i) ==
    ~AbortPending /\ calls[i].pc \in {"open", "cancelled"} /\ nEvents < MaxEvents

\* a chunk with one more event arrives on an open stream
CanRead(i) == ~AbortPending /\ calls[i].pc = "open" /\ nEvents < MaxEvents

\* a migration that registers the stream under s and forgets to delete __new__
MigrateStreamKeepsProvisional(i, s) ==
    [streamsRef EXCEPT ![s] = i]

\* migrate the stream key from __new__ to the real session id (lines 282-283)
MigrateStream(i, s) ==
    [streamsRef EXCEPT ![NewKey] = 0, ![s] = i]

\* move the messages into the cache for this session, or seed it (lines 286-293)
MigrateCache(i, s) ==
    LET currentMessages == messagesCacheRef[NewKey] IN
    IF Len(currentMessages) > 0
    THEN [messagesCacheRef EXCEPT ![NewKey] = <<>>, ![s] = currentMessages]
    ELSE [messagesCacheRef EXCEPT ![s] = <<UserMessage(i)>>]

\* session_init: the server assigns a new conversation an identifier it has
\* not used, and answers a stream of an existing session with that session's.
OnSessionInit(i, s) ==
    LET c == calls[i] IN
    /\ ~c.inited
    /\ IF c.currentSessionId = NONE THEN s \notin server ELSE s = c.currentSessionId
    /\ calls' = [calls EXCEPT ![i].resolvedSessionId = s, ![i].inited = TRUE]
    /\ streamsRef' = IF c.currentSessionId = NONE THEN MigrateStream(i, s) ELSE streamsRef
    /\ messagesCacheRef' =
          IF c.currentSessionId = NONE THEN MigrateCache(i, s) ELSE messagesCacheRef
    /\ sessionId' = s
    /\ status' = UpdateSessionStatus(s, "running")
    /\ server' = server \cup {s}
    /\ nEvents' = nEvents + 1
    /\ log' = Append(log, Event(i, "session_init", s, FALSE))
    /\ UNCHANGED <<messages, isLoading, activeSessionRef, fetches, nFetch, thrown>>
    /\ UNCHANGED auxVars

SessionInit(i, s) == CanRead(i) /\ OnSessionInit(i, s)

\* a text block is open: currentTextBlockIndex points at a text block (line 308)
TextBlockOpen(c) ==
    /\ c.currentTextBlockIndex # 0
    /\ c.contentBlocks[c.currentTextBlockIndex].type = "text"

\* an assembler that starts a text block for every fragment
TextBlocksAlwaysPush(c, f) ==
    Append(c.contentBlocks, TextBlock(<<f>>))

\* add or update the text block (lines 307-316)
TextBlocksAfter(c, f) ==
    IF TextBlockOpen(c)
    THEN [c.contentBlocks EXCEPT ![c.currentTextBlockIndex].content = Append(@, f)]
    ELSE Append(c.contentBlocks, TextBlock(<<f>>))

\* text / text_delta with a non-empty fragment (lines 304-338)
OnText(i, f) ==
    LET c == calls[i]
        content == Append(c.assistantContent, f)
        blocks == TextBlocksAfter(c, f)
    IN
    /\ calls' = [calls EXCEPT ![i].assistantContent = content,
                              ![i].contentBlocks = blocks,
                              ![i].currentTextBlockIndex =
                                  IF TextBlockOpen(c) THEN @
                                  ELSE Len(c.contentBlocks) + 1]
    /\ UpdateSessionMessages(TargetId(c),
          UpsertText(messagesCacheRef[TargetId(c)], i, content, blocks))
    /\ nEvents' = nEvents + 1
    /\ log' = Append(log, Event(i, "text", f, FALSE))
    /\ UNCHANGED <<sessionId, isLoading, activeSessionRef, streamsRef, fetches,
                   nFetch, status, server, thrown>>
    /\ UNCHANGED auxVars

TextEvent(i, f) == CanRead(i) /\ OnText(i, f)

\* a tool_use branch that leaves the open text block index as it is
IndexAfterToolUseKept(c) == c.currentTextBlockIndex

\* currentTextBlockIndex = -1 (line 348)
IndexAfterToolUse(c) == 0

\* tool_use (lines 339-361)
OnToolUse(i, t) ==
    LET c == calls[i]
        tools == Append(c.toolCalls, NewTool(t))
        blocks == Append(c.contentBlocks, ToolBlock(NewTool(t)))
    IN
    /\ calls' = [calls EXCEPT ![i].toolCalls = tools, ![i].contentBlocks = blocks,
                              ![i].currentTextBlockIndex = IndexAfterToolUse(c)]
    /\ UpdateSessionMessages(TargetId(c),
          PatchTools(messagesCacheRef[TargetId(c)], i, tools, blocks))
    /\ nEvents' = nEvents + 1
    /\ log' = Append(log, Event(i, "tool_use", t, FALSE))
    /\ UNCHANGED <<sessionId, isLoading, activeSessionRef, streamsRef, fetches,
                   nFetch, status, server, thrown>>
    /\ UNCHANGED auxVars

ToolUseEvent(i, t) == CanRead(i) /\ OnToolUse(i, t)

\* a lookup that falls back on the first tool call when the id is unknown
FindToolOrFirst(tools, t) ==
    IF \E k \in 1..Len(tools) : tools[k].id = t
    THEN CHOOSE k \in 1..Len(tools) :
            /\ tools[k].id = t
            /\ \A j \in 1..(k - 1) : tools[j].id # t
    ELSE IF Len(tools) > 0 THEN 1 ELSE 0

\* toolCalls.findIndex((t) => t.id === id), 0 when there is none
FindTool(tools, t) ==
    IF \E k \in 1..Len(tools) : tools[k].id = t
    THEN CHOOSE k \in 1..Len(tools) :
            /\ tools[k].id = t
            /\ \A j \in 1..(k - 1) : tools[j].id # t
    ELSE 0

\* contentBlocks.findIndex((b) => b.type === "tool_use" && b.tool.id === id)
FindToolBlock(blocks, t) ==
    IF \E k \in 1..Len(blocks) : blocks[k].type = "tool_use" /\ blocks[k].tool.id = t
    THEN CHOOSE k \in 1..Len(blocks) :
            /\ blocks[k].type = "tool_use" /\ blocks[k].tool.id = t
            /\ \A j \in 1..(k - 1) :
                  ~(blocks[j].type = "tool_use" /\ blocks[j].tool.id = t)
    ELSE 0

\* tool_result (lines 362-391); a tool call and the block that refers to it
\* are one object, so the first assignment already shows in the block
OnToolResult(i, t, isError) ==
    LET c == calls[i]
        k == FindTool(c.toolCalls, t)
        b == FindToolBlock(c.contentBlocks, t)
        tools == [c.toolCalls EXCEPT ![k].result = "result", ![k].isError = isError]
        blocks == IF b > 0
                  THEN [c.contentBlocks EXCEPT ![b].tool.result = "result",
                                               ![b].tool.isError = isError]
                  ELSE c.contentBlocks
    IN
    /\ IF k > 0
       THEN /\ calls' = [calls EXCEPT ![i].toolCalls = tools,
                                      ![i].contentBlocks = blocks]
            /\ UpdateSessionMessages(TargetId(c),
                  PatchTools(messagesCacheRef[TargetId(c)], i, tools, blocks))
       ELSE /\ UNCHANGED calls
            /\ UNCHANGED <<messagesCacheRef, messages>>
    /\ nEvents' = nEvents + 1
    /\ log' = Append(log, Event(i, "tool_result", t, isError))
    /\ UNCHANGED <<sessionId, isLoading, activeSessionRef, streamsRef, fetches,
                   nFetch, status, server, thrown>>
    /\ UNCHANGED auxVars

ToolResultEvent(i, t, isError) == CanRead(i) /\ OnToolResult(i, t, isError)

\* error (lines 392-407)
OnError(i) ==
    LET c == calls[i]
        content == Append(c.assistantContent, ERROR_EVENT)
    IN
    /\ calls' = [calls EXCEPT ![i].assistantContent = content]
    /\ status' = IF c.resolvedSessionId # NONE
                 THEN UpdateSessionStatus(c.resolvedSessionId, "error")
                 ELSE status
    /\ UpdateSessionMessages(TargetId(c),
          PatchContent(messagesCacheRef[TargetId(c)], i, content))
    /\ nEvents' = nEvents + 1
    /\ log' = Append(log, Event(i, "error", NONE, FALSE))
    /\ UNCHANGED <<sessionId, isLoading, activeSessionRef, streamsRef, fetches,
                   nFetch, server, thrown>>
    /\ UNCHANGED auxVars

ErrorEvent(i) == CanRead(i) /\ OnError(i)

\* result (lines 408-412)
OnResult(i) ==
    LET c == calls[i] IN
    /\ UNCHANGED calls
    /\ status' = IF c.resolvedSessionId # NONE
                 THEN UpdateSessionStatus(c.resolvedSessionId, "completed")
                 ELSE status
    /\ nEvents' = nEvents + 1
    /\ log' = Append(log, Event(i, "result", NONE, FALSE))
    /\ UNCHANGED <<sessionId, messages, isLoading, activeSessionRef,
                   messagesCacheRef, streamsRef, fetches, nFetch, server, thrown>>
    /\ UNCHANGED auxVars

ResultEvent(i) == CanRead(i) /\ OnResult(i)

\* the mutant of OnMalformed: the parse error ends the stream
OnMalformedEndsStream(i) ==
    /\ nEvents' = nEvents + 1
    /\ log' = Append(log, Event(i, "malformed", NONE, FALSE))
    /\ calls' = [calls EXCEPT ![i].pc = "failed"]
    /\ UNCHANGED <<sessionId, messages, isLoading, activeSessionRef,
                   messagesCacheRef, streamsRef, fetches, nFetch, status,
                   server, thrown>>
    /\ UNCHANGED auxVars

\* a frame that is not JSON: JSON.parse throws, the frame is skipped (413-415)
OnMalformed(i) ==
    /\ nEvents' = nEvents + 1
    /\ log' = Append(log, Event(i, "malformed", NONE, FALSE))
    /\ UNCHANGED <<sessionId, messages, isLoading, activeSessionRef,
                   messagesCacheRef, streamsRef, calls, fetches, nFetch, status,
                   server, thrown>>
    /\ UNCHANGED auxVars

MalformedEvent(i) == CanRead(i) /\ OnMalformed(i)

----------------------------------------------------------------------------
\* The end of a stream (lines 419-457).

\* finally: clear loading only if this session is still active
FinallyLoading(resolved) ==
    IF activeSessionRef = resolved THEN FALSE ELSE isLoading

\* finally: streamsRef.current.delete(resolvedSessionId || streamKey)
FinallyStreams(c) ==
    [streamsRef EXCEPT
        ![IF c.resolvedSessionId # NONE THEN c.resolvedSessionId ELSE c.streamKey] = 0]

\* the body is read to its end: done is true, the loop breaks
Close(i) ==
    LET c == calls[i] IN
    /\ ~AbortPending
    /\ c.pc = "open"
    /\ calls' = [calls EXCEPT ![i].pc = "closed"]
    /\ isLoading' = FinallyLoading(c.resolvedSessionId)
    /\ streamsRef' = FinallyStreams(c)
    /\ UNCHANGED <<nEvents, log, thrown>>
    /\ UNCHANGED <<sessionId, messages, activeSessionRef, messagesCacheRef,
                   fetches, nFetch, status, server>>
    /\ UNCHANGED auxVars

\* the failures of a stream: fetch rejects (line 240), the response is not ok
\* (251), it has no body (255), a read of the body rejects (261)
SendFailures == {"fetch", "status", "nobody", "read"}

\* a sendMessage that gets the reader before entering the try block
CaughtBySendAfterReader(kind) == kind \in {"read"}

\* the failure is thrown inside the try block of lines 239-418
CaughtBySend(kind) == kind \in {"fetch", "status", "nobody", "read"}

\* a failure of the stream that is not a cancellation (lines 438-448)
Fail(i, kind) ==
    LET c == calls[i] IN
    /\ ~AbortPending
    /\ c.pc = "open"
    /\ kind \in {"fetch", "status", "nobody"} => ~Started(i)
    /\ thrown' = IF CaughtBySend(kind) THEN thrown ELSE thrown \cup {"sendMessage"}
    /\ calls' = [calls EXCEPT ![i].pc = "failed"]
    /\ status' = IF c.resolvedSessionId # NONE
                 THEN UpdateSessionStatus(c.resolvedSessionId, "error")
                 ELSE status
    /\ UpdateSessionMessages(TargetId(c),
          Append(messagesCacheRef[TargetId(c)], ErrorMessage(i)))
    /\ isLoading' = FinallyLoading(c.resolvedSessionId)
    /\ streamsRef' = FinallyStreams(c)
    /\ UNCHANGED <<nEvents, log>>
    /\ UNCHANGED <<sessionId, activeSessionRef, fetches, nFetch, server>>
    /\ UNCHANGED auxVars

\* the AbortError branch (lines 420-437) of a stream whose controller was aborted
AbortCatch(i) ==
    LET c == calls[i] IN
    /\ c.pc = "aborted"
    /\ calls' = [calls EXCEPT ![i].pc = "cancelled"]
    /\ IF c.resolvedSessionId # NONE /\ c.assistantContent # <<>>
       THEN UpdateSessionMessages(c.resolvedSessionId,
               PatchInterrupted(messagesCacheRef[c.resolvedSessionId], i,
                                c.assistantContent, c.contentBlocks))
       ELSE UNCHANGED <<messagesCacheRef, messages>>
    /\ isLoading' = FinallyLoading(c.resolvedSessionId)
    /\ streamsRef' = FinallyStreams(c)
    /\ UNCHANGED <<nEvents, log, thrown>>
    /\ UNCHANGED <<sessionId, activeSessionRef, fetches, nFetch, status, server>>
    /\ UNCHANGED auxVars

----------------------------------------------------------------------------
\* resetSession (lines 460-475)

\* the controllers resetSession aborts: the session shown and the provisional key
ResetAborted ==
    Abort(IF sessionId # NONE THEN Abort(calls, streamsRef[sessionId]) ELSE calls,
          streamsRef[NewKey])

ResetStreams ==
    [k \in Keys |-> IF k = sessionId \/ k = NewKey THEN 0 ELSE streamsRef[k]]

OnResetSession ==
    /\ ~AbortPending
    /\ Rendered
    /\ calls' = ResetAborted
    /\ streamsRef' = ResetStreams
    /\ messages' = <<>>
    /\ sessionId' = NONE
    /\ activeSessionRef' = NONE
    /\ isLoading' = FALSE
    /\ UNCHANGED <<nEvents, log, thrown>>
    /\ UNCHANGED <<messagesCacheRef, fetches, nFetch, status, server>>

ResetSession == OnResetSession /\ UNCHANGED auxVars

----------------------------------------------------------------------------
\* loadSession (lines 477-534); the sidebar lists the sessions of the server

\* save current messages to cache before switching (lines 479-482)
SaveBeforeSwitch(newSessionId) ==
    IF sessionId # NONE /\ sessionId # newSessionId
    THEN [messagesCacheRef EXCEPT ![sessionId] = messages]
    ELSE messagesCacheRef

\* const hasActiveStream = streamsRef.current.has(newSessionId)
HasActiveStream(newSessionId) == streamsRef[newSessionId] # 0

\* a loadSession that aborts the stream of the session it leaves
LoadSessionCallsAborting ==
    IF sessionId # NONE THEN Abort(calls, streamsRef[sessionId]) ELSE calls

\* DON'T abort the stream: loadSession leaves every controller alone
LoadSessionCalls == calls

\* the history field nav of each call, after loadSession(newSessionId)
NavAfter(cs, newSessionId) ==
    [i \in StreamIds |->
        LET r == cs[i].resolvedSessionId IN
        IF r = NONE THEN cs[i]
        ELSE IF newSessionId # r /\ sessionId = r
             THEN [cs[i] EXCEPT !.nav = IF cs[i].pc = "open" THEN "away" ELSE "left"]
        ELSE IF newSessionId = r /\ cs[i].nav = "away"
             THEN [cs[i] EXCEPT !.nav = "back"]
        ELSE cs[i]]

OnLoadSession(newSessionId) ==
    LET saved == SaveBeforeSwitch(newSessionId)
        cached == saved[newSessionId]
    IN
    /\ ~AbortPending
    /\ Rendered
    /\ newSessionId \in server
    /\ Len(cached) > 0 \/ nFetch < MaxFetch
    /\ sessionId' = newSessionId
    /\ activeSessionRef' = newSessionId
    /\ messagesCacheRef' = saved
    /\ calls' = NavAfter(LoadSessionCalls, newSessionId)
    /\ IF Len(cached) > 0
       THEN /\ messages' = cached
            /\ isLoading' = HasActiveStream(newSessionId)
            /\ UNCHANGED <<fetches, nFetch>>
       ELSE /\ messages' = <<>>
            /\ isLoading' = TRUE
            /\ nFetch' = nFetch + 1
            /\ fetches' = fetches \cup {[sid |-> newSessionId, n |-> nFetch + 1]}
    /\ UNCHANGED <<nEvents, log, thrown>>
    /\ UNCHANGED <<streamsRef, status, server>>

LoadSession(newSessionId) == OnLoadSession(newSessionId) /\ UNCHANGED auxVars

\* the transcript the server returns, parsed (lines 507-524)
\* the filter, map and join of lines 510-515: the texts of the text parts
RECURSIVE JoinText(_)
JoinText(parts) ==
    IF parts = <<>> THEN <<>>
    ELSE (IF Head(parts).type = "text" THEN Head(parts).text ELSE <<>>)
         \o JoinText(Tail(parts))


\* the mutant of KeptRole: every message is kept
KeptAnyRole(msg) == TRUE

\* the messages the loop keeps (line 508)
KeptRole(msg) == msg.role \in {"user", "assistant"}

\* the loop of lines 507-524 over data.messages, after j messages were
\* pushed by the fetch n
RECURSIVE ParseMessages(_, _, _)
ParseMessages(data, n, j) ==
    IF data = <<>> THEN <<>>
    ELSE LET msg == Head(data)
         IN IF KeptRole(msg)
            THEN <<HistMessage(HistId(n, j + 1), msg.role,
                               IF msg.content.array
                               THEN JoinText(msg.content.value)
                               ELSE msg.content.value)>>
                 \o ParseMessages(Tail(data), n, j + 1)
            ELSE ParseMessages(Tail(data), n, j)

\* parsedMessages of the fetch f (lines 505-524)
Transcript(f) == ParseMessages(transcripts[f.sid], f.n, 0)

\* the failures of a transcript fetch: fetch rejects (line 501), the response
\* is not ok (503), its body is not the JSON expected (505-524)
LoadFailures == {"fetch", "status", "json"}

\* the failure is thrown inside the try block of lines 500-528
CaughtByLoad(kind) == kind \in {"fetch", "status", "json"}

\* the transcript fetch settles (lines 500-533)
OnFetchDone(f, ok) ==
    /\ ~AbortPending
    /\ f \in fetches
    /\ fetches' = fetches \ {f}
    /\ \E kind \in LoadFailures :
          thrown' = IF ok \/ CaughtByLoad(kind) THEN thrown
                    ELSE thrown \cup {"loadSession"}
    /\ IF ok
       THEN /\ messages' = Transcript(f)
            /\ messagesCacheRef' = [messagesCacheRef EXCEPT ![f.sid] = Transcript(f)]
       ELSE /\ messages' = <<>>
            /\ UNCHANGED messagesCacheRef
    /\ isLoading' = FALSE
    /\ UNCHANGED <<nEvents, log>>
    /\ UNCHANGED <<sessionId, activeSessionRef, streamsRef, calls, nFetch, status,
                   server>>

FetchDone(f, ok) == OnFetchDone(f, ok) /\ UNCHANGED auxVars

----------------------------------------------------------------------------
Next ==
    \/ SendMessage
    \/ ResetSession
    \/ \E s \in Sessions : LoadSession(s)
    \/ \E f \in fetches, ok \in BOOLEAN : FetchDone(f, ok)
    \/ \E i \in StreamIds, s \in Sessions : SessionInit(i, s)
    \/ \E i \in StreamIds, f \in Frags : TextEvent(i, f)
    \/ \E i \in StreamIds, t \in ToolIds : ToolUseEvent(i, t)
    \/ \E i \in StreamIds, t \in ToolIds, e \in BOOLEAN : ToolResultEvent(i, t, e)
    \/ \E i \in StreamIds : ErrorEvent(i)
    \/ \E i \in StreamIds : ResultEvent(i)
    \/ \E i \in StreamIds : MalformedEvent(i)
    \/ \E i \in StreamIds : Close(i)
    \/ \E i \in StreamIds, kind \in SendFailures : Fail(i, kind)
    \/ \E i \in StreamIds : AbortCatch(i)
    \/ Commit

Spec == Init /\ [][Next]_vars

----------------------------------------------------------------------------
\* The assembly of one response: a single sendMessage on a new conversation,
\* whose stream delivers up to MaxAssemblyEvents events drawn from two
\* fragments and two tool ids, and ends, fails or is cancelled by
\* resetSession.

AssemblyFrags == {"p", "q"}
AssemblyTools == {"T", "U"}

AssemblyInit == Init /\ server = {}

AssemblyCanRead ==
    ~AbortPending /\ calls[1].pc = "open" /\ nEvents < MaxAssemblyEvents

AssemblySend == NextCall = 1 /\ SendMessage
AssemblySessionInit == AssemblyCanRead /\ OnSessionInit(1, "A")
AssemblyText(f) == AssemblyCanRead /\ OnText(1, f)
AssemblyToolUse(t) == AssemblyCanRead /\ OnToolUse(1, t)
AssemblyToolResult(t, isError) == AssemblyCanRead /\ OnToolResult(1, t, isError)
AssemblyError == AssemblyCanRead /\ OnError(1)
AssemblyResult == AssemblyCanRead /\ OnResult(1)
AssemblyMalformed == AssemblyCanRead /\ OnMalformed(1)

AssemblyNext ==
    \/ AssemblySend
    \/ AssemblySessionInit
    \/ \E f \in AssemblyFrags : AssemblyText(f)
    \/ \E t \in AssemblyTools : AssemblyToolUse(t)
    \/ \E t \in AssemblyTools, e \in BOOLEAN : AssemblyToolResult(t, e)
    \/ AssemblyError
    \/ AssemblyResult
    \/ AssemblyMalformed
    \/ Close(1)
    \/ ResetSession
    \/ AbortCatch(1)
    \/ Commit

Assembly == AssemblyInit /\ [][AssemblyNext]_vars

\* The effect of a render runs, the rejection of an aborted read is
\* delivered, and the server ends the body of a response it has begun.
AssemblyLive ==
    /\ Assembly
    /\ WF_vars(Commit)
    /\ WF_vars(AbortCatch(1))
    /\ WF_vars(Close(1))

----------------------------------------------------------------------------
\* The read loop of sendMessage (lines 257-271) on one response body: the
\* bytes of the body arrive in chunks of any size, the TextDecoder turns
\* them into characters, the line buffer cuts the characters into lines, and
\* the lines that carry the data: marker and a JSON payload are dispatched.
\* A character is a string; a byte is the string of a one-byte character, or
\* one of the two bytes of the two-byte character WIDE.

LF == "\n"
CR == "\r"
SP == " "
LEAD == "0xC3"
TRAIL == "0xA9"
WIDE == "e-acute"
MARKER == <<"d", "a", "t", "a", ":">>

\* TextDecoder.decode(value, {stream: true}): the bytes of held \o value as
\* characters, an incomplete character at the end being held back
RECURSIVE Decode(_, _)
Decode(held, value) ==
    IF value = <<>> THEN [chars |-> <<>>, held |-> held]
    ELSE LET b == Head(value)
             rest == Tail(value)
         IN IF held # <<>>
            THEN LET d == Decode(<<>>, rest)
                 IN [chars |-> <<WIDE>> \o d.chars, held |-> d.held]
            ELSE IF b = LEAD
                 THEN Decode(<<b>>, rest)
                 ELSE LET d == Decode(<<>>, rest)
                      IN [chars |-> <<b>> \o d.chars, held |-> d.held]

\* String.prototype.split("\n"): the pieces between the newlines, the piece
\* after the last newline included
RECURSIVE Split(_)
Split(text) ==
    IF \A k \in 1..Len(text) : text[k] # LF THEN <<text>>
    ELSE LET k == CHOOSE j \in 1..Len(text) :
                      text[j] = LF /\ \A h \in 1..(j - 1) : text[h] # LF
         IN <<SubSeq(text, 1, k - 1)>> \o Split(SubSeq(text, k + 1, Len(text)))

\* the mutant of BufferAfter: the partial line is dropped
BufferAfterDropped(lines) == <<>>

\* buffer = lines.pop() || "" (line 265): the piece after the last newline
BufferAfter(lines) == lines[Len(lines)]

\* line.startsWith("data:") (line 268)
StartsWith(line, prefix) ==
    Len(line) >= Len(prefix) /\ SubSeq(line, 1, Len(prefix)) = prefix

\* String.prototype.trim: white space removed at both ends
IsSpace(c) == c \in {SP, CR}
RECURSIVE TrimStart(_)
TrimStart(text) ==
    IF text # <<>> /\ IsSpace(Head(text)) THEN TrimStart(Tail(text)) ELSE text
RECURSIVE TrimEnd(_)
TrimEnd(text) ==
    IF text # <<>> /\ IsSpace(text[Len(text)])
    THEN TrimEnd(SubSeq(text, 1, Len(text) - 1))
    ELSE text

\* the payloads JSON.parse accepts: one-character documents; anything else
\* throws and is skipped (lines 273, 413-415)
JsonParses(data) == Len(data) = 1 /\ data[1] \in {"x", "y", WIDE}

\* the body of the for loop over the complete lines (lines 267-417): the
\* events handed to the handlers, in order
RECURSIVE Dispatch(_)
Dispatch(lines) ==
    IF lines = <<>> THEN <<>>
    ELSE LET line == Head(lines)
             data == TrimEnd(TrimStart(SubSeq(line, Len(MARKER) + 1, Len(line))))
         IN (IF StartsWith(line, MARKER) /\ data # <<>> /\ JsonParses(data)
             THEN <<[payload |-> data[1]]>>
             ELSE <<>>) \o Dispatch(Tail(lines))

\* the frames a server writes: each is a newline-terminated line, with the
\* event it encodes (NONE: a line that encodes no event)
FrameSet ==
    { [bytes |-> MARKER \o <<"x", LF>>, event |-> "x"],
      [bytes |-> MARKER \o <<SP, "y", CR, LF>>, event |-> "y"],
      [bytes |-> MARKER \o <<LEAD, TRAIL, LF>>, event |-> WIDE],
      [bytes |-> <<LF>>, event |-> NONE],
      [bytes |-> MARKER \o <<SP, LF>>, event |-> NONE],
      [bytes |-> <<":", "k", LF>>, event |-> NONE],
      [bytes |-> MARKER \o <<"{", LF>>, event |-> NONE] }

\* the bytes of a response body
RECURSIVE BytesOf(_)
BytesOf(frames) ==
    IF frames = <<>> THEN <<>> ELSE Head(frames).bytes \o BytesOf(Tail(frames))

DecoderInit ==
    /\ ChatInit
    /\ server = {}
    /\ wire \in UNION {[1..n -> FrameSet] : n \in 1..MaxFrames}
    /\ delivered = 0
    /\ decoder = <<>>
    /\ buffer = <<>>
    /\ dispatched = <<>>
    /\ NoObjects
    /\ PlainTranscripts
    /\ JustMounted
    /\ SidebarClosed

\* one turn of the while loop: reader.read() returns the next n bytes
ReadChunk(n) ==
    LET value == SubSeq(BytesOf(wire), delivered + 1, delivered + n)
        decoded == Decode(decoder, value)
        lines == Split(buffer \o decoded.chars)
    IN /\ delivered + n <= Len(BytesOf(wire))
       /\ delivered' = delivered + n
       /\ decoder' = decoded.held
       /\ buffer' = BufferAfter(lines)
       /\ dispatched' = dispatched \o Dispatch(SubSeq(lines, 1, Len(lines) - 1))
       /\ UNCHANGED <<wire, chatVars, besidesDecoder>>

DecoderNext == \E n \in 1..(Len(BytesOf(wire)) - delivered) : ReadChunk(n)

Decoder == DecoderInit /\ [][DecoderNext]_vars

----------------------------------------------------------------------------
\* The objects of one response (lines 228-232, 304-391).  The handlers of
\* text, tool_use and tool_result keep the blocks and tools of the response
\* in two local arrays and publish copies of the arrays; an array holds
\* references, so a published list and the locals share the objects.  heap
\* is the sequence of objects allocated, an address is an index of heap, and
\* a list is a sequence of messages whose contentBlocks and toolCalls are
\* sequences of addresses.

\* { type: "text", content } (line 311)
TextObject(f) ==
    [type |-> "text", content |-> <<f>>, tool |-> 0, id |-> NONE,
     result |-> ABSENT, isError |-> ABSENT]

\* newTool (lines 340-344)
ToolObject(t) ==
    [type |-> "tool", content |-> <<>>, tool |-> 0, id |-> t,
     result |-> ABSENT, isError |-> ABSENT]

\* { type: "tool_use", tool: newTool } (line 347)
ToolUseObject(a) ==
    [type |-> "tool_use", content |-> <<>>, tool |-> a, id |-> NONE,
     result |-> ABSENT, isError |-> ABSENT]

\* the user message of the turn and the assistant message under assembly
SharedUser ==
    [id |-> "user", content |-> <<"u">>, contentBlocks |-> <<>>,
     toolCalls |-> <<>>]

SharedIndex(list) ==
    IF \E k \in 1..Len(list) : list[k].id = "assistant"
    THEN CHOOSE k \in 1..Len(list) : list[k].id = "assistant"
    ELSE 0

\* the updater of the text branch (lines 318-337): a new list; the message
\* is replaced by a copy with the new content and a copy of contentBlocks,
\* or pushed
SharedUpsert(prev, content, blocks) ==
    LET k == SharedIndex(prev)
    IN IF k > 0
       THEN [prev EXCEPT ![k].content = content, ![k].contentBlocks = blocks]
       ELSE Append(prev, [id |-> "assistant", content |-> content,
                          contentBlocks |-> blocks, toolCalls |-> <<>>])

\* the updater of the tool branches (lines 350-360, 380-390)
SharedPatch(prev, tools, blocks) ==
    LET k == SharedIndex(prev)
    IN IF k > 0
       THEN [prev EXCEPT ![k].toolCalls = tools, ![k].contentBlocks = blocks]
       ELSE prev

\* updateSessionMessages (lines 187-199): the new list replaces the sharedEntry
\* and is handed to React
SharedPublish(updated) ==
    /\ sharedEntry' = updated
    /\ snapshots' = snapshots \cup {updated}

SharingInit ==
    /\ ChatInit
    /\ server = {}
    /\ NoBody
    /\ PlainTranscripts
    /\ JustMounted
    /\ SidebarClosed
    /\ heap = <<>>
    /\ shared = [assistantContent |-> <<>>, toolCalls |-> <<>>,
                 contentBlocks |-> <<>>, currentTextBlockIndex |-> 0]
    /\ sharedEntry = <<SharedUser>>
    /\ snapshots = {<<SharedUser>>}

\* one more text or tool_use event arrives
SharedCanRead ==
    Len(shared.assistantContent) + Len(shared.toolCalls) < MaxSharedEvents

\* text, text_delta (lines 304-338)
SharedText(f) ==
    LET c == shared
        k == c.currentTextBlockIndex
        open == k # 0 /\ heap[c.contentBlocks[k]].type = "text"
        content == Append(c.assistantContent, f)
        blocks == IF open THEN c.contentBlocks
                  ELSE Append(c.contentBlocks, Len(heap) + 1)
    IN /\ SharedCanRead
       /\ heap' = IF open
                  THEN [heap EXCEPT ![c.contentBlocks[k]].content = Append(@, f)]
                  ELSE Append(heap, TextObject(f))
       /\ shared' = [c EXCEPT !.assistantContent = content,
                              !.contentBlocks = blocks,
                              !.currentTextBlockIndex =
                                  IF open THEN k ELSE Len(blocks)]
       /\ SharedPublish(SharedUpsert(sharedEntry, content, blocks))
       /\ UNCHANGED <<chatVars, besidesSharing>>

\* tool_use (lines 339-361)
SharedToolUse(t) ==
    LET c == shared
        newTool == Len(heap) + 1
        tools == Append(c.toolCalls, newTool)
        blocks == Append(c.contentBlocks, newTool + 1)
    IN /\ SharedCanRead
       /\ heap' = heap \o <<ToolObject(t), ToolUseObject(newTool)>>
       /\ shared' = [c EXCEPT !.toolCalls = tools, !.contentBlocks = blocks,
                              !.currentTextBlockIndex = 0]
       /\ SharedPublish(SharedPatch(sharedEntry, tools, blocks))
       /\ UNCHANGED <<chatVars, besidesSharing>>

\* toolCalls.findIndex (line 363), 0 when no tool has the id
SharedFindTool(tools, t) ==
    IF \E k \in 1..Len(tools) : heap[tools[k]].id = t
    THEN CHOOSE k \in 1..Len(tools) :
             /\ heap[tools[k]].id = t
             /\ \A j \in 1..(k - 1) : heap[tools[j]].id # t
    ELSE 0

\* tool_result for a tool of the response (lines 362-391): the tool object
\* is assigned its result; block.tool is the same object
SharedToolResult(t, isError) ==
    LET c == shared
        k == SharedFindTool(c.toolCalls, t)
    IN /\ k > 0
       /\ heap' = [heap EXCEPT ![c.toolCalls[k]].result = "result",
                               ![c.toolCalls[k]].isError = isError]
       /\ SharedPublish(SharedPatch(sharedEntry, c.toolCalls, c.contentBlocks))
       /\ UNCHANGED <<shared, chatVars, besidesSharing>>

SharingNext ==
    \/ \E f \in AssemblyFrags : SharedText(f)
    \/ \E t \in AssemblyTools : SharedToolUse(t)
    \/ \E t \in AssemblyTools, e \in BOOLEAN : SharedToolResult(t, e)

Sharing == SharingInit /\ [][SharingNext]_vars

----------------------------------------------------------------------------
\* Loading a session whose transcript the server holds (lines 477-534): the
\* user selects sessions and starts over; the server returns the same
\* transcript for every session, any sequence of up to MaxTranscript
\* messages of the three roles whose content is a string, null, or an array
\* of text and tool_use parts.

RawContents ==
    { RawString(<<"a">>),
      RawString(<<>>),
      RawArray(<<>>),
      RawArray(<<RawPart("text", <<"b">>)>>),
      RawArray(<<RawPart("tool_use", <<>>)>>),
      RawArray(<<RawPart("text", <<"b">>), RawPart("tool_use", <<>>),
                 RawPart("text", <<"c">>)>>) }


LoadingInit ==
    /\ ChatInit
    /\ server = Sessions
    /\ NoBody
    /\ NoObjects
    /\ JustMounted
    /\ SidebarClosed
    /\ LET RawMessages ==
              {RawMessage(role, content) :
                  role \in {"user", "assistant", "system"}, content \in RawContents}
       IN \E t \in UNION {[1..n -> RawMessages] : n \in 0..MaxTranscript} :
              transcripts = [s \in Sessions |-> t]

LoadingNext ==
    \/ \E s \in Sessions : LoadSession(s)
    \/ \E f \in fetches, ok \in BOOLEAN : FetchDone(f, ok)
    \/ ResetSession

Loading == LoadingInit /\ [][LoadingNext]_vars

----------------------------------------------------------------------------
\* Pending actions, toasts and the notification channel: ChatInterface
\* (ChatInterface.tsx), useNotifications (useNotifications.ts),
\* PendingActionModal (PendingActionModal.tsx) and setPendingAction of the
\* store (vite.config.ts, lines 105-117), with the navigation of useChat
\* between sessions whose transcripts are cached or fetched.  No stream
\* runs, so the session rendered is the session selected.

\* the pending actions a server sends: a question (Cancel and Submit), a
\* request for approval (one button per option), an error (Dismiss)
PendingActions ==
    { [id |-> "Q", type |-> "question"],
      [id |-> "P", type |-> "approval_required"],
      [id |-> "E", type |-> "error"] }

IsAction(a) == a \in PendingActions

\* showPendingModal (ChatInterface.tsx, lines 58-60)
ShowPendingModal ==
    /\ sessionId # NONE
    /\ status[sessionId] = "waiting_user"
    /\ IsAction(pendingAction[sessionId])

\* setPendingAction(id, action) (vite.config.ts, lines 105-117)
SetPendingAction(id, action) ==
    /\ pendingAction' = [pendingAction EXCEPT ![id] = action]
    /\ status' = [status EXCEPT ![id] =
                     IF action # NOACTION THEN "waiting_user"
                     ELSE IF status[id] = ABSENT THEN "idle" ELSE status[id]]

\* The effects of ChatInterface after a render with session sid: the session
\* joins knownSessionIds (lines 63-67), and since onNotification is a new
\* function at every render, connect is new and the effect of
\* useNotifications.ts lines 91-102 runs again: the cleanup closes the
\* connection and clears the reconnection timer, connect() opens a
\* connection when a session is known (lines 30-40).
Effects(sid) ==
    /\ knownSessionIds' =
          IF sid # NONE THEN knownSessionIds \cup {sid} ELSE knownSessionIds
    /\ eventSourceRef' = IF knownSessionIds' # {} THEN "open" ELSE eventSourceRef
    /\ reconnectTimeoutRef' = FALSE

\* the modal keeps its state while it is shown and loses it when it is not
ModalAfter(submitting) ==
    isSubmitting' = (submitting /\ ShowPendingModal')

\* the user selects a session (ChatInterface.tsx, lines 88-90)
SelectSession(s) ==
    /\ mounted
    /\ OnLoadSession(s)
    /\ Effects(s)
    /\ UNCHANGED <<pendingAction, toast, timers, nToasts, mounted, submissions>>
    /\ UNCHANGED besidesAttention
    /\ UNCHANGED answers
    /\ ModalAfter(isSubmitting)

\* the transcript fetch of the session selected settles
TranscriptDone(f, ok) ==
    /\ OnFetchDone(f, ok)
    /\ IF mounted THEN Effects(sessionId)
       ELSE UNCHANGED <<knownSessionIds, eventSourceRef, reconnectTimeoutRef>>
    /\ UNCHANGED <<pendingAction, toast, timers, nToasts, mounted, isSubmitting,
                   submissions>>
    /\ UNCHANGED besidesAttention
    /\ UNCHANGED answers

\* the user starts a new chat (ChatInterface.tsx, lines 84-86)
NewChat ==
    /\ mounted
    /\ OnResetSession
    /\ Effects(NONE)
    /\ UNCHANGED <<pendingAction, toast, timers, nToasts, mounted, submissions>>
    /\ UNCHANGED besidesAttention
    /\ UNCHANGED answers
    /\ ModalAfter(isSubmitting)

\* the mutant of ToastWanted: a toast for every needs_attention event
ToastWantedAlways(s) == TRUE

\* onNotification (ChatInterface.tsx, line 73): the handler was installed by
\* the effects of the last render, whose sessionId it compares with
ToastWanted(s) == s # activeSessionRef

\* onmessage for a needs_attention event of session s carrying the pending
\* action a, or none (useNotifications.ts, lines 42-72; ChatInterface.tsx,
\* lines 72-80)
NeedsAttention(s, a) ==
    /\ mounted
    /\ eventSourceRef = "open"
    /\ s \in knownSessionIds
    /\ nToasts < MaxToasts
    /\ IF a # NOACTION THEN SetPendingAction(s, a)
       ELSE UNCHANGED <<pendingAction, status>>
    /\ IF ToastWanted(s)
       THEN /\ toast' = [sessionId |-> s, n |-> nToasts + 1]
            /\ timers' = timers \cup {nToasts + 1}
            /\ nToasts' = nToasts + 1
       ELSE UNCHANGED <<toast, timers, nToasts>>
    /\ IF a # NOACTION \/ ToastWanted(s) THEN Effects(sessionId)
       ELSE UNCHANGED <<knownSessionIds, eventSourceRef, reconnectTimeoutRef>>
    /\ UNCHANGED <<mounted, submissions>>
    /\ UNCHANGED <<sessionId, messages, isLoading, activeSessionRef,
                   messagesCacheRef, streamsRef, calls, fetches, nFetch, nEvents,
                   server, log, thrown>>
    /\ UNCHANGED besidesAttention
    /\ UNCHANGED answers
    /\ ModalAfter(isSubmitting)

\* the values of AgentStatus (vite.config.ts, line 52)
AgentStatus == {"idle", "running", "waiting_user", "completed", "error"}

\* onmessage for a status_update event of session s carrying the status st
\* and the pending action a, or none (useNotifications.ts, lines 57-61):
\* updateSession(id, {status, pendingAction}) (vite.config.ts, lines
\* 119-130) writes both fields as they come; onNotification raises no toast
\* for this type (ChatInterface.tsx, line 73)
StatusUpdate(s, st, a) ==
    /\ mounted
    /\ eventSourceRef = "open"
    /\ s \in knownSessionIds
    /\ status' = [status EXCEPT ![s] = st]
    /\ pendingAction' = [pendingAction EXCEPT ![s] = a]
    /\ Effects(sessionId)
    /\ UNCHANGED <<toast, timers, nToasts, mounted, submissions, answers>>
    /\ UNCHANGED <<sessionId, messages, isLoading, activeSessionRef,
                   messagesCacheRef, streamsRef, calls, fetches, nFetch, nEvents,
                   server, log, thrown>>
    /\ UNCHANGED besidesAttention
    /\ ModalAfter(isSubmitting)

\* onmessage for a progress event of session s (useNotifications.ts, lines
\* 62-66): updateSession(id, {progressMessage}) spreads the entry of the
\* session, which may not exist, and writes sessionId and progressMessage
\* (vite.config.ts, lines 119-130)
Progress(s) ==
    /\ mounted
    /\ eventSourceRef = "open"
    /\ s \in knownSessionIds
    /\ progressMessage' = [progressMessage EXCEPT ![s] = "m"]
    /\ Effects(sessionId)
    /\ UNCHANGED <<pendingAction, status, toast, timers, nToasts, mounted,
                   isSubmitting, submissions, answers>>
    /\ UNCHANGED <<sessionId, messages, isLoading, activeSessionRef,
                   messagesCacheRef, streamsRef, calls, fetches, nFetch, nEvents,
                   server, log, thrown>>
    /\ UNCHANGED <<decoderVars, sharingVars, transcripts, sidebarVars>>

\* setTimeout(() => setToast(null), 5000) fires (ChatInterface.tsx, line 79)
ToastTimer(n) ==
    /\ n \in timers
    /\ timers' = timers \ {n}
    /\ toast' = NOTOAST
    /\ IF mounted /\ toast # NOTOAST THEN Effects(sessionId)
       ELSE UNCHANGED <<knownSessionIds, eventSourceRef, reconnectTimeoutRef>>
    /\ UNCHANGED <<pendingAction, nToasts, mounted, isSubmitting, submissions>>
    /\ UNCHANGED <<chatVars, besidesAttention>>
    /\ UNCHANGED answers

\* the user dismisses the toast (ChatInterface.tsx, line 198)
ToastDismiss ==
    /\ mounted
    /\ toast # NOTOAST
    /\ toast' = NOTOAST
    /\ Effects(sessionId)
    /\ UNCHANGED <<pendingAction, timers, nToasts, mounted, isSubmitting,
                   submissions>>
    /\ UNCHANGED <<chatVars, besidesAttention>>
    /\ UNCHANGED answers

\* the user follows the toast to its session (ChatInterface.tsx, lines 92-97)
ToastNavigate ==
    /\ mounted
    /\ toast # NOTOAST
    /\ OnLoadSession(toast.sessionId)
    /\ toast' = NOTOAST
    /\ Effects(toast.sessionId)
    /\ UNCHANGED <<pendingAction, timers, nToasts, mounted, submissions>>
    /\ UNCHANGED besidesAttention
    /\ UNCHANGED answers
    /\ ModalAfter(isSubmitting)

\* handleSubmit up to its await (PendingActionModal.tsx, lines 21-23), called
\* by the buttons of a question or of an approval (lines 41-60, 78-84)
Submit ==
    /\ mounted
    /\ ShowPendingModal
    /\ pendingAction[sessionId].type \in {"question", "approval_required"}
    /\ ~isSubmitting
    /\ Cardinality(submissions) + Cardinality(answers) < MaxSubmissions
    /\ [sessionId |-> sessionId, action |-> pendingAction[sessionId].id]
           \notin submissions
    /\ isSubmitting' = TRUE
    /\ submissions' = submissions \cup
           {[sessionId |-> sessionId, action |-> pendingAction[sessionId].id]}
    /\ UNCHANGED <<pendingAction, toast, timers, nToasts, knownSessionIds,
                   eventSourceRef, reconnectTimeoutRef, mounted>>
    /\ UNCHANGED <<chatVars, besidesAttention>>
    /\ UNCHANGED answers

\* the mutant of Resolves: the pending action is cleared whatever the answer
ResolvesAlways(success) == TRUE

\* if (success) onResolved() (PendingActionModal.tsx, lines 26-28)
Resolves(success) == success

\* handleSubmit after its await (PendingActionModal.tsx, lines 24-28):
\* onResolved is the function the modal was given when the response was
\* submitted, which clears the pending action of that session
\* (ChatInterface.tsx, line 209)
SubmitDone(sub, success) ==
    /\ sub \in submissions
    /\ submissions' = submissions \ {sub}
    /\ answers' = answers \cup {[sessionId |-> sub.sessionId,
                                  action |-> sub.action, success |-> success]}
    /\ IF Resolves(success)
       THEN /\ SetPendingAction(sub.sessionId, NOACTION)
            /\ IF mounted THEN Effects(sessionId)
               ELSE UNCHANGED <<knownSessionIds, eventSourceRef,
                                reconnectTimeoutRef>>
       ELSE UNCHANGED <<pendingAction, status, knownSessionIds, eventSourceRef,
                        reconnectTimeoutRef>>
    /\ UNCHANGED <<toast, timers, nToasts, mounted>>
    /\ UNCHANGED <<sessionId, messages, isLoading, activeSessionRef,
                   messagesCacheRef, streamsRef, calls, fetches, nFetch, nEvents,
                   server, log, thrown>>
    /\ UNCHANGED besidesAttention
    /\ ModalAfter(FALSE)

\* the user cancels or dismisses the modal: onClose (ChatInterface.tsx,
\* line 208)
Dismiss ==
    /\ mounted
    /\ ShowPendingModal
    /\ pendingAction[sessionId].type \in {"question", "error"}
    /\ SetPendingAction(sessionId, NOACTION)
    /\ Effects(sessionId)
    /\ UNCHANGED <<toast, timers, nToasts, mounted, submissions>>
    /\ UNCHANGED <<sessionId, messages, isLoading, activeSessionRef,
                   messagesCacheRef, streamsRef, calls, fetches, nFetch, nEvents,
                   server, log, thrown>>
    /\ UNCHANGED besidesAttention
    /\ UNCHANGED answers
    /\ ModalAfter(isSubmitting)

\* the mutant of AfterError: the connection is closed and no timer is set
AfterErrorNoRetry == FALSE

\* onerror sets the reconnection timer (useNotifications.ts, lines 77-79)
AfterError == TRUE

\* onerror of the connection (useNotifications.ts, lines 74-80)
ChannelError ==
    /\ mounted
    /\ eventSourceRef = "open"
    /\ eventSourceRef' = "closed"
    /\ reconnectTimeoutRef' = AfterError
    /\ UNCHANGED <<pendingAction, toast, timers, nToasts, knownSessionIds,
                   mounted, isSubmitting, submissions>>
    /\ UNCHANGED <<chatVars, besidesAttention>>
    /\ UNCHANGED answers

\* the reconnection timer fires: connect() (useNotifications.ts, lines 30-40,
\* 77-79)
Reconnect ==
    /\ reconnectTimeoutRef
    /\ reconnectTimeoutRef' = FALSE
    /\ eventSourceRef' = IF knownSessionIds # {} THEN "open" ELSE eventSourceRef
    /\ UNCHANGED <<pendingAction, toast, timers, nToasts, knownSessionIds,
                   mounted, isSubmitting, submissions>>
    /\ UNCHANGED <<chatVars, besidesAttention>>
    /\ UNCHANGED answers

\* ChatInterface is unmounted: the cleanup of useNotifications.ts lines
\* 94-101 closes the connection and clears the reconnection timer
Unmount ==
    /\ mounted
    /\ mounted' = FALSE
    /\ eventSourceRef' = IF eventSourceRef = "open" THEN "closed" ELSE eventSourceRef
    /\ reconnectTimeoutRef' = FALSE
    /\ isSubmitting' = FALSE
    /\ UNCHANGED <<pendingAction, toast, timers, nToasts, knownSessionIds,
                   submissions>>
    /\ UNCHANGED <<chatVars, besidesAttention>>
    /\ UNCHANGED answers

\* the state after the user has selected A, then B, each loaded from the
\* server, and started a new chat
AfterTwoVisits ==
    /\ sessionId = NONE
    /\ messages = <<>>
    /\ isLoading = FALSE
    /\ activeSessionRef = NONE
    /\ messagesCacheRef =
          [k \in Keys |->
              IF k \in Sessions
              THEN Transcript([sid |-> k, n |-> IF k = "A" THEN 1 ELSE 2])
              ELSE <<>>]
    /\ streamsRef = [k \in Keys |-> 0]
    /\ calls = [i \in StreamIds |-> NoCall]
    /\ fetches = {}
    /\ nFetch = 2
    /\ nEvents = 0
    /\ status = [s \in Sessions |-> ABSENT]
    /\ progressMessage = [s \in Sessions |-> ABSENT]
    /\ log = <<>>
    /\ thrown = {}
    /\ pendingAction = [s \in Sessions |-> UNSET]
    /\ toast = NOTOAST
    /\ timers = {}
    /\ nToasts = 0
    /\ knownSessionIds = Sessions
    /\ eventSourceRef = "open"
    /\ reconnectTimeoutRef = FALSE
    /\ mounted = TRUE
    /\ isSubmitting = FALSE
    /\ submissions = {}
    /\ answers = {}

\* ChatInterface just mounted, or after two sessions were visited
AttentionInit ==
    /\ NoBody
    /\ SidebarClosed
    /\ NoObjects
    /\ PlainTranscripts
    /\ server = Sessions
    /\ \/ ChatInit /\ JustMounted
       \/ AfterTwoVisits

AttentionNext ==
    \/ \E s \in Sessions : SelectSession(s)
    \/ \E f \in fetches, ok \in BOOLEAN : TranscriptDone(f, ok)
    \/ NewChat
    \/ \E s \in Sessions, a \in PendingActions \cup {NOACTION} : NeedsAttention(s, a)
    \/ \E n \in 1..MaxToasts : ToastTimer(n)
    \/ ToastDismiss
    \/ ToastNavigate
    \/ Submit
    \/ \E sub \in submissions, success \in BOOLEAN : SubmitDone(sub, success)
    \/ Dismiss
    \/ ChannelError
    \/ Reconnect
    \/ Unmount

Attention == AttentionInit /\ [][AttentionNext]_vars

\* The session store under the three kinds of notification and the user's
\* answers: the sessions are selected, notified, answered and dismissed.
StoreNext ==
    \/ \E s \in Sessions : SelectSession(s)
    \/ \E f \in fetches, ok \in BOOLEAN : TranscriptDone(f, ok)
    \/ NewChat
    \/ \E s \in Sessions, a \in PendingActions \cup {NOACTION} : NeedsAttention(s, a)
    \/ \E s \in Sessions, st \in AgentStatus,
          a \in PendingActions \cup {NOACTION} :
          \* the server sends a pending action with waiting_user, and only then
          /\ (st = "waiting_user") <=> IsAction(a)
          /\ StatusUpdate(s, st, a)
    \/ \E s \in Sessions : Progress(s)
    \/ Submit
    \/ \E sub \in submissions, success \in BOOLEAN : SubmitDone(sub, success)
    \/ Dismiss

Store == Init /\ [][StoreNext]_vars

----------------------------------------------------------------------------
\* The dates of the list of sessions (SessionSidebar.tsx, lines 44-62,
\* 86-101).  A string is the sequence of its characters, a number is the
\* sequence of its decimal digits without leading zeros, and a Date is its
\* time value in milliseconds, or the time of the call.

RECURSIVE SkipSpace(_)
SkipSpace(text) ==
    IF text # <<>> /\ Head(text) = SP THEN SkipSpace(Tail(text)) ELSE text

\* the digits at the start of text
RECURSIVE LeadingDigits(_)
LeadingDigits(text) ==
    LET chars == <<"0", "1", "2", "3", "4", "5", "6", "7", "8", "9">>
    IN IF text # <<>> /\ \E d \in 1..10 : chars[d] = Head(text)
       THEN <<(CHOOSE d \in 1..10 : chars[d] = Head(text)) - 1>>
            \o LeadingDigits(Tail(text))
       ELSE <<>>

RECURSIVE StripZeros(_)
StripZeros(ds) ==
    IF Len(ds) > 1 /\ Head(ds) = 0 THEN StripZeros(Tail(ds)) ELSE ds

\* parseFloat(value) (line 48) on a string without fraction or exponent:
\* the number written at the start of the string, after white space and a
\* sign; NaN when there is none
ParseFloat(text) ==
    LET t == SkipSpace(text)
        negative == t # <<>> /\ Head(t) = "-"
        ds == LeadingDigits(IF negative THEN Tail(t) ELSE t)
    IN [nan |-> ds = <<>>, negative |-> negative, digits |-> StripZeros(ds)]

\* a < b for two numbers given by their digits
RECURSIVE DigitsBelow(_, _)
DigitsBelow(a, b) ==
    \/ Len(a) < Len(b)
    \/ /\ Len(a) = Len(b)
       /\ a # <<>>
       /\ \/ Head(a) < Head(b)
          \/ Head(a) = Head(b) /\ DigitsBelow(Tail(a), Tail(b))

\* 1000000000 and 10000000000 (line 49)
UNIX_MIN == <<1, 0, 0, 0, 0, 0, 0, 0, 0, 0>>
UNIX_MAX == <<1, 0, 0, 0, 0, 0, 0, 0, 0, 0, 0>>

\* the mutant of LooksLikeUnixSeconds: every number is taken for seconds
LooksLikeNumber(n) == ~n.nan

\* !isNaN(numValue) && numValue > 1000000000 && numValue < 10000000000
LooksLikeUnixSeconds(n) ==
    /\ ~n.nan
    /\ ~n.negative
    /\ DigitsBelow(UNIX_MIN, n.digits)
    /\ DigitsBelow(n.digits, UNIX_MAX)

\* new Date() (lines 45, 61): the time of the call
NOW == [now |-> TRUE, ms |-> <<>>]
\* a Date with a time value
DateAt(ms) == [now |-> FALSE, ms |-> ms]

\* the strings new Date(value) parses (line 55), with their time values;
\* every other string gives an invalid Date
DateStrings ==
    {
      [chars |-> <<"2", "0", "2", "3", "-", "1", "1", "-", "1", "4", "T", "2", "2", ":", "1", "3", ":", "2", "0", "Z">>,
       ms |-> <<1, 7, 0, 0, 0, 0, 0, 0, 0, 0, 0, 0, 0>>],
      [chars |-> <<"T", "u", "e", ",", " ", "1", "4", " ", "N", "o", "v", " ", "2", "0", "2", "3", " ", "2", "2", ":", "1", "3", ":", "2", "0", " ", "G", "M", "T">>,
       ms |-> <<1, 7, 0, 0, 0, 0, 0, 0, 0, 0, 0, 0, 0>>],
      [chars |-> <<"2", "0", "0", "1", "-", "0", "9", "-", "0", "9", "T", "0", "1", ":", "4", "6", ":", "4", "1", "Z">>,
       ms |-> <<1, 0, 0, 0, 0, 0, 0, 0, 0, 1, 0, 0, 0>>],
      [chars |-> <<"2", "2", "8", "6", "-", "1", "1", "-", "2", "0", "T", "1", "7", ":", "4", "6", ":", "3", "9", "Z">>,
       ms |-> <<9, 9, 9, 9, 9, 9, 9, 9, 9, 9, 0, 0, 0>>],
      [chars |-> <<"2", "0", "2", "4">>,
       ms |-> <<1, 7, 0, 4, 0, 6, 7, 2, 0, 0, 0, 0, 0>>],
      [chars |-> <<"2", "0", "2", "4", "-", "0", "1", "-", "1", "5">>,
       ms |-> <<1, 7, 0, 5, 2, 7, 6, 8, 0, 0, 0, 0, 0>>] }

\* parseTimestamp (lines 44-62); numValue * 1000 appends three zeros
ParseTimestamp(value) ==
    IF value = <<>> THEN NOW
    ELSE LET numValue == ParseFloat(value)
         IN IF LooksLikeUnixSeconds(numValue)
            THEN DateAt(numValue.digits \o <<0, 0, 0>>)
            ELSE IF \E d \in DateStrings : d.chars = value
                 THEN DateAt((CHOOSE d \in DateStrings : d.chars = value).ms)
            ELSE NOW

\* the timestamps a server sends, each with what it denotes: Unix seconds
\* in the range, a date, or nothing
Timestamps ==
    {
      \* Unix seconds, 2023
      [chars |-> <<"1", "7", "0", "0", "0", "0", "0", "0", "0", "0">>,
       kind |-> "unix", ms |-> <<1, 7, 0, 0, 0, 0, 0, 0, 0, 0, 0, 0, 0>>],
      \* the same instant in ISO 8601
      [chars |-> <<"2", "0", "2", "3", "-", "1", "1", "-", "1", "4", "T", "2", "2", ":", "1", "3", ":", "2", "0", "Z">>,
       kind |-> "date", ms |-> <<1, 7, 0, 0, 0, 0, 0, 0, 0, 0, 0, 0, 0>>],
      \* the same instant in RFC 2822
      [chars |-> <<"T", "u", "e", ",", " ", "1", "4", " ", "N", "o", "v", " ", "2", "0", "2", "3", " ", "2", "2", ":", "1", "3", ":", "2", "0", " ", "G", "M", "T">>,
       kind |-> "date", ms |-> <<1, 7, 0, 0, 0, 0, 0, 0, 0, 0, 0, 0, 0>>],
      \* the first Unix seconds above the lower limit
      [chars |-> <<"1", "0", "0", "0", "0", "0", "0", "0", "0", "1">>,
       kind |-> "unix", ms |-> <<1, 0, 0, 0, 0, 0, 0, 0, 0, 1, 0, 0, 0>>],
      \* the same instant in ISO 8601
      [chars |-> <<"2", "0", "0", "1", "-", "0", "9", "-", "0", "9", "T", "0", "1", ":", "4", "6", ":", "4", "1", "Z">>,
       kind |-> "date", ms |-> <<1, 0, 0, 0, 0, 0, 0, 0, 0, 1, 0, 0, 0>>],
      \* the last Unix seconds below the upper limit
      [chars |-> <<"9", "9", "9", "9", "9", "9", "9", "9", "9", "9">>,
       kind |-> "unix", ms |-> <<9, 9, 9, 9, 9, 9, 9, 9, 9, 9, 0, 0, 0>>],
      \* the same instant in ISO 8601
      [chars |-> <<"2", "2", "8", "6", "-", "1", "1", "-", "2", "0", "T", "1", "7", ":", "4", "6", ":", "3", "9", "Z">>,
       kind |-> "date", ms |-> <<9, 9, 9, 9, 9, 9, 9, 9, 9, 9, 0, 0, 0>>],
      \* the lower limit itself
      [chars |-> <<"1", "0", "0", "0", "0", "0", "0", "0", "0", "0">>,
       kind |-> "none", ms |-> <<>>],
      \* the upper limit itself
      [chars |-> <<"1", "0", "0", "0", "0", "0", "0", "0", "0", "0", "0">>,
       kind |-> "none", ms |-> <<>>],
      \* a number below the range
      [chars |-> <<"9", "9", "9", "9", "9", "9", "9", "9", "9">>,
       kind |-> "none", ms |-> <<>>],
      \* milliseconds
      [chars |-> <<"1", "7", "0", "0", "0", "0", "0", "0", "0", "0", "0", "0", "0">>,
       kind |-> "none", ms |-> <<>>],
      \* zero
      [chars |-> <<"0">>,
       kind |-> "none", ms |-> <<>>],
      \* a negative number
      [chars |-> <<"-", "1", "7", "0", "0", "0", "0", "0", "0", "0", "0">>,
       kind |-> "none", ms |-> <<>>],
      \* a year alone
      [chars |-> <<"2", "0", "2", "4">>,
       kind |-> "date", ms |-> <<1, 7, 0, 4, 0, 6, 7, 2, 0, 0, 0, 0, 0>>],
      \* a date alone
      [chars |-> <<"2", "0", "2", "4", "-", "0", "1", "-", "1", "5">>,
       kind |-> "date", ms |-> <<1, 7, 0, 5, 2, 7, 6, 8, 0, 0, 0, 0, 0>>],
      \* Unix seconds after white space
      [chars |-> <<" ", "1", "7", "0", "0", "0", "0", "0", "0", "0", "0">>,
       kind |-> "unix", ms |-> <<1, 7, 0, 0, 0, 0, 0, 0, 0, 0, 0, 0, 0>>],
      \* Unix seconds with leading zeros
      [chars |-> <<"0", "0", "1", "7", "0", "0", "0", "0", "0", "0", "0", "0">>,
       kind |-> "unix", ms |-> <<1, 7, 0, 0, 0, 0, 0, 0, 0, 0, 0, 0, 0>>],
      \* not a date
      [chars |-> <<"y", "e", "s", "t", "e", "r", "d", "a", "y">>,
       kind |-> "none", ms |-> <<>>],
      \* white space
      [chars |-> <<" ">>,
       kind |-> "none", ms |-> <<>>],
      \* empty
      [chars |-> <<>>,
       kind |-> "none", ms |-> <<>>] }

SidebarInit ==
    /\ ChatInit
    /\ server = {}
    /\ NoBody
    /\ NoObjects
    /\ PlainTranscripts
    /\ JustMounted
    /\ apiSession \in [created_at : {t.chars : t \in Timestamps},
                       modified_at : {t.chars : t \in Timestamps}]
    /\ sidebarSession = [listed |-> FALSE]

\* fetchSessions maps the session of the response (lines 86-101)
FetchSessions ==
    /\ ~sidebarSession.listed
    /\ sidebarSession' =
          [listed |-> TRUE,
           createdAt |-> ParseTimestamp(apiSession.created_at),
           lastMessageAt |-> ParseTimestamp(apiSession.modified_at)]
    /\ UNCHANGED <<apiSession, chatVars, besidesSidebar>>

SidebarNext == FetchSessions

Sidebar == SidebarInit /\ [][SidebarNext]_vars


----------------------------------------------------------------------------
\* Vocabulary of the properties.

Range(seq) == {seq[k] : k \in 1..Len(seq)}

\* stream i has accumulated assistant text
HasText(i) == \E f \in Frags : f \in Range(calls[i].assistantContent)

\* the step in which stream i, started with no session, processes session_init
Rekeyed(i) ==
    /\ calls[i].pc = "open"
    /\ calls[i].currentSessionId = NONE
    /\ calls[i].resolvedSessionId = NONE
    /\ calls'[i].resolvedSessionId # NONE

\* the cache entry of s holds the user message of stream i directly followed
\* by its assistant message holding all the content accumulated
TurnIntact(i, s) ==
    LET entry == messagesCacheRef[s]
        k == FindIndex(entry, AssistantId(i))
    IN /\ k > 1
       /\ entry[k - 1] = UserMessage(i)
       /\ entry[k].content = calls[i].assistantContent

----------------------------------------------------------------------------
\* C1: when a stream started with no session processes session_init with id
\* S, the cache then holds the conversation under S only (nothing under the
\* provisional marker), and the entry of S starts with the original user
\* message, followed by the assistant message if fragments had arrived.
C1_RekeyStartsWithUserMessage ==
    [][\A i \in StreamIds :
          Rekeyed(i) =>
             LET s == calls'[i].resolvedSessionId
                 entry == messagesCacheRef'[s]
             IN /\ messagesCacheRef'[NewKey] = <<>>
                /\ Len(entry) >= 1
                /\ entry[1] = UserMessage(i)
                /\ FindIndex(messagesCacheRef[NewKey], AssistantId(i)) > 0
                      => /\ Len(entry) >= 2
                         /\ entry[2].id = AssistantId(i)]_vars

\* C2: a stream started on session A has ended normally, the user switched
\* away from A while it ran and has come back: the list shown is the cache
\* entry of A, and that entry holds the turn with every fragment once.
C2_SwitchKeepsFinalState ==
    \A i \in StreamIds :
        ( /\ calls[i].pc = "closed"
          /\ calls[i].currentSessionId # NONE
          /\ calls[i].nav = "back"
          /\ sessionId = calls[i].currentSessionId
          /\ Rendered
          /\ HasText(i) )
        => /\ messages = messagesCacheRef[sessionId]
           /\ TurnIntact(i, sessionId)

\* C3: no two live streams belong to the same session, the provisional
\* marker included.
C3_OneLiveStreamPerSession ==
    \A i, j \in StreamIds :
        (i # j /\ Live(i) /\ Live(j)) => TargetId(calls[i]) # TargetId(calls[j])

\* C4: the visible list is the cache entry of the active session.
C4_VisibleIsActiveEntry ==
    (Rendered /\ sessionId # NONE) => messages = messagesCacheRef[sessionId]


\* C5: a cancelled stream that had accumulated text leaves, in the cache
\* entry of its conversation, its assistant message with all that text and
\* the interruption annotation, and no synthetic error message.
C5_CancelKeepsPartialContent ==
    \A i \in StreamIds :
        (calls[i].pc = "cancelled" /\ HasText(i)) =>
            LET entry == messagesCacheRef[TargetId(calls[i])]
                k == FindIndex(entry, AssistantId(i))
            IN /\ k > 0
               /\ entry[k].content = Append(calls[i].assistantContent, INTERRUPTED)
               /\ FindIndex(entry, ErrorId(i)) = 0

\* the conversation of stream i is the one displayed
Displayed(i) ==
    /\ Rendered
    /\ sessionId = calls[i].resolvedSessionId
    /\ sessionId = NONE => UserMessage(i) \in Range(messages)

\* C6: when a stream fails for another reason than cancellation, the
\* synthetic error message is appended to its conversation's messages,
\* visibly if that conversation is displayed (a new conversation with no
\* identifier included), and the session's status becomes error.
C6_TransportFailureSurfaced ==
    [][\A i \in StreamIds :
          (calls[i].pc = "open" /\ calls'[i].pc = "failed") =>
             /\ ErrorMessage(i) \in Range(messagesCacheRef'[TargetId(calls[i])])
             /\ Displayed(i) => ErrorMessage(i) \in Range(messages')
             /\ calls[i].resolvedSessionId # NONE
                   => status'[calls[i].resolvedSessionId] = "error"]_vars

\* C7: the step that processes session_init with id S for a stream started
\* with no session leaves nothing under the provisional marker, in the cache
\* and in the stream registry, registers the stream under S, and puts the
\* messages accumulated under the provisional marker under S.
C7_RekeyReplacesProvisional ==
    [][\A i \in StreamIds :
          Rekeyed(i) =>
             LET s == calls'[i].resolvedSessionId IN
             /\ streamsRef'[NewKey] = 0
             /\ streamsRef'[s] = i
             /\ messagesCacheRef'[NewKey] = <<>>
             /\ \A k \in 1..Len(messagesCacheRef[NewKey]) :
                   /\ k <= Len(messagesCacheRef'[s])
                   /\ messagesCacheRef'[s][k] = messagesCacheRef[NewKey][k]]_vars

\* a stream started with no session was re-keyed with its fragment in the cache
C7_Witness ==
    \E i \in StreamIds :
        /\ calls[i].currentSessionId = NONE
        /\ calls[i].resolvedSessionId # NONE
        /\ Live(i)
        /\ streamsRef[calls[i].resolvedSessionId] = i
        /\ FindIndex(messagesCacheRef[calls[i].resolvedSessionId], AssistantId(i)) = 1
        /\ nEvents = 2

\* C8: loadSession aborts no stream and leaves the registry as it is, and
\* a text event of a stream whose session is not the one displayed still
\* accumulates into the cache entry of the stream's session.
C8_LoadSessionCancelsNothing ==
    [][/\ (\E s \in Sessions : LoadSession(s)) =>
             /\ \A i \in StreamIds : calls'[i].pc = calls[i].pc
             /\ streamsRef' = streamsRef
       /\ \A i \in StreamIds :
             ( /\ \E f \in Frags : TextEvent(i, f)
               /\ calls[i].resolvedSessionId # NONE
               /\ calls[i].resolvedSessionId # activeSessionRef )
             => LET entry == messagesCacheRef'[calls[i].resolvedSessionId]
                    k == FindIndex(entry, AssistantId(i))
                IN /\ k > 0
                   /\ entry[k].content = calls'[i].assistantContent]_vars

\* the user switched away from a running stream, which is still live and
\* registered and has accumulated text in its own entry since
C8_Witness ==
    \E i \in StreamIds :
        /\ Live(i)
        /\ calls[i].nav = "away"
        /\ sessionId \in Sessions \ {calls[i].resolvedSessionId}
        /\ Rendered
        /\ streamsRef[calls[i].resolvedSessionId] = i
        /\ HasText(i)
        /\ TurnIntact(i, calls[i].resolvedSessionId)
        /\ FindIndex(messages, AssistantId(i)) = 0

\* C9: after resetSession no live stream is left for the session that was
\* active nor for a new conversation not yet resolved; no session is active
\* and the visible list is empty.
C9_ResetCancelsActiveAndProvisional ==
    [][ResetSession =>
          /\ \A i \in StreamIds :
                (Live(i) /\ (calls[i].resolvedSessionId = NONE
                             \/ calls[i].resolvedSessionId = sessionId))
                => calls'[i].pc # "open"
          /\ sessionId' = NONE
          /\ messages' = <<>>]_vars

\* C10: on a cache hit loadSession starts no fetch, and sets the loading
\* indicator to whether a stream of that session is still running.
C10_HitLoadingIffLiveStream ==
    [][\A s \in Sessions :
          (LoadSession(s) /\ Len(SaveBeforeSwitch(s)[s]) > 0) =>
             /\ fetches' = fetches
             /\ messages' = SaveBeforeSwitch(s)[s]
             /\ isLoading' = (\E i \in StreamIds :
                                 Live(i) /\ calls[i].resolvedSessionId = s)]_vars

----------------------------------------------------------------------------
\* stream i mutates the cache entry of its conversation: a content event, the
\* synthetic error message, or the interruption annotation
StreamMutation(i) ==
    \/ \E f \in Frags : TextEvent(i, f)
    \/ \E t \in ToolIds : ToolUseEvent(i, t)
    \/ \E t \in ToolIds, e \in BOOLEAN : ToolResultEvent(i, t, e)
    \/ ErrorEvent(i)
    \/ \E kind \in SendFailures : Fail(i, kind)
    \/ AbortCatch(i)

\* C11: a stream event, error or interruption annotation for a session other
\* than the one being viewed changes at most the cache entry of that session
\* and leaves the visible message list unchanged.
C11_BackgroundMutationSilent ==
    [][\A i \in StreamIds :
          (StreamMutation(i) /\ TargetId(calls[i]) # activeSessionRef) =>
             /\ messages' = messages
             /\ \A k \in Keys \ {TargetId(calls[i])} :
                   messagesCacheRef'[k] = messagesCacheRef[k]]_vars

\* a stream failed while the user was viewing another session: its error
\* message is in the entry of its session and not in the visible list
C11_Witness ==
    \E i \in StreamIds :
        /\ calls[i].pc = "failed"
        /\ calls[i].nav = "away"
        /\ Rendered
        /\ calls[i].resolvedSessionId \in Sessions \ {sessionId}
        /\ ErrorMessage(i) \in Range(messagesCacheRef[calls[i].resolvedSessionId])
        /\ ErrorMessage(i) \notin Range(messages)

\* C12: an error event leaves, in the cache entry of the stream's
\* conversation, the assistant message of the turn with the error text
\* appended to its content (also in the visible list when that conversation
\* is the one viewed), sets the status of the session to error, and leaves
\* the stream open.
C12_ErrorEventAppended ==
    [][\A i \in StreamIds :
          ErrorEvent(i) =>
             LET target == TargetId(calls[i])
                 entry == messagesCacheRef'[target]
                 k == FindIndex(entry, AssistantId(i))
             IN /\ k > 0
                /\ entry[k].content = Append(calls[i].assistantContent, ERROR_EVENT)
                /\ activeSessionRef = target => messages' = entry
                /\ calls[i].resolvedSessionId # NONE
                      => status'[calls[i].resolvedSessionId] = "error"
                /\ calls'[i].pc = "open"]_vars

\* C13: no operation of the hook ends with its promise rejected, whatever
\* fails: the chat request, the response, its body, a frame, or the
\* transcript request of loadSession; a failed operation has settled.
C13_OperationsSettle ==
    /\ thrown = {}
    /\ \A i \in StreamIds :
          calls[i].pc \in {"idle", "open", "aborted", "closed", "failed", "cancelled"}

\* a stream skipped a malformed frame and then failed, and a transcript
\* fetch failed: the session shown has no message and nothing is loading
C13_Witness ==
    /\ \E i \in StreamIds :
          /\ calls[i].pc = "failed"
          /\ \E k \in 1..Len(log) : log[k] = Event(i, "malformed", NONE, FALSE)
    /\ nFetch = 1
    /\ fetches = {}
    /\ sessionId # NONE
    /\ messagesCacheRef[sessionId] = <<>>
    /\ messages = <<>>
    /\ ~isLoading

\* C14: a session status that is completed or error changes only to
\* running.
C14_TerminalStatusOnlyToRunning ==
    [][\A s \in Sessions :
          (status[s] \in {"completed", "error"} /\ status'[s] # status[s])
          => status'[s] = "running"]_vars

----------------------------------------------------------------------------
\* The events stream i has delivered, from the history.

EventsOf(i) == SelectSeq(log, LAMBDA e : e.stream = i)

\* the fragments of the text events of stream i, in order of arrival
TextFrags(i) ==
    LET sel == SelectSeq(log, LAMBDA e : e.stream = i /\ e.type = "text")
    IN [k \in 1..Len(sel) |-> sel[k].arg]

\* stream i has delivered text, and no tool or error event
OnlyText(i) ==
    /\ Len(TextFrags(i)) > 0
    /\ \A k \in 1..Len(log) :
          log[k].stream = i => log[k].type \in {"text", "session_init", "result"}

\* the assistant message of stream i as published in the cache is m
Published(i, m) ==
    LET entry == messagesCacheRef[TargetId(calls[i])]
        k == FindIndex(entry, AssistantId(i))
    IN k > 0 /\ entry[k] = m

\* The terminal client (src/cli/src/cli.tsx) assembles the assistant message
\* of a response from locals of the same shape: the text branch of its loop,
\* run over a sequence of fragments.

CliStart ==
    [assistantContent |-> <<>>, contentBlocks |-> <<>>, currentTextBlockIndex |-> 0]

\* text / text_delta (cli.tsx lines 209-221)
CliText(st, f) ==
    LET idx == st.currentTextBlockIndex
        open == idx # 0 /\ st.contentBlocks[idx].type = "text"
    IN [assistantContent |-> Append(st.assistantContent, f),
        contentBlocks |->
            IF open
            THEN [st.contentBlocks EXCEPT ![idx].content = Append(@, f)]
            ELSE Append(st.contentBlocks, TextBlock(<<f>>)),
        currentTextBlockIndex |-> IF open THEN idx ELSE Len(st.contentBlocks) + 1]

RECURSIVE CliAssemble(_)
CliAssemble(frags) ==
    IF frags = <<>> THEN CliStart
    ELSE CliText(CliAssemble(SubSeq(frags, 1, Len(frags) - 1)), frags[Len(frags)])

\* C15: while a stream has delivered text fragments f1..fn and no tool or
\* error event, its assistant message has the content f1..fn and exactly one
\* content block, a text block holding f1..fn; the terminal client assembles
\* the same content and block from f1..fn.
C15_TextAccumulation ==
    \A i \in StreamIds :
        (calls[i].pc \in {"open", "closed"} /\ OnlyText(i)) =>
            /\ \E m \in Range(messagesCacheRef[TargetId(calls[i])]) :
                  /\ m.id = AssistantId(i)
                  /\ m.content = TextFrags(i)
                  /\ m.contentBlocks = <<TextBlock(TextFrags(i))>>
            /\ CliAssemble(TextFrags(i)).assistantContent = TextFrags(i)
            /\ CliAssemble(TextFrags(i)).contentBlocks = <<TextBlock(TextFrags(i))>>

\* three fragments have arrived, the third after session_init
C15_Witness ==
    /\ calls[1].pc = "open"
    /\ EventsOf(1) = <<Event(1, "text", "p", FALSE), Event(1, "text", "q", FALSE),
                       Event(1, "session_init", "A", FALSE),
                       Event(1, "text", "p", FALSE)>>
    /\ \E m \in Range(messagesCacheRef["A"]) :
          /\ m.id = AssistantId(1)
          /\ m.content = <<"p", "q", "p">>
          /\ m.contentBlocks = <<TextBlock(<<"p", "q", "p">>)>>

----------------------------------------------------------------------------
\* the text and tool_use events of stream i, in order of arrival
Emitted(i) ==
    LET sel == SelectSeq(log, LAMBDA e : e.stream = i /\ e.type \in {"text", "tool_use"})
    IN [k \in 1..Len(sel) |-> [type |-> sel[k].type, arg |-> sel[k].arg]]

\* what a content block stands for: its fragments, or its tool call
Unfold(block) ==
    IF block.type = "text"
    THEN [k \in 1..Len(block.content) |-> [type |-> "text", arg |-> block.content[k]]]
    ELSE <<[type |-> "tool_use", arg |-> block.tool.id]>>

RECURSIVE Flatten(_)
Flatten(blocks) ==
    IF blocks = <<>> THEN <<>>
    ELSE Flatten(SubSeq(blocks, 1, Len(blocks) - 1)) \o Unfold(blocks[Len(blocks)])

NoAdjacentText(blocks) ==
    \A k \in 1..(Len(blocks) - 1) :
        ~(blocks[k].type = "text" /\ blocks[k + 1].type = "text")

\* C16: the content blocks of a response, as assembled and as published,
\* unfold to the text fragments and tool calls in their order of arrival, and
\* no two text blocks are adjacent: a fragment that arrives after a tool_use
\* is in a text block after that tool-use block.
C16_ToolUseSplitsText ==
    \A i \in StreamIds :
        /\ Flatten(calls[i].contentBlocks) = Emitted(i)
        /\ NoAdjacentText(calls[i].contentBlocks)
        /\ \A m \in Range(messagesCacheRef[TargetId(calls[i])]) :
              m.id = AssistantId(i) => m.contentBlocks = calls[i].contentBlocks

\* text, tool_use, text: three blocks are published
C16_Witness ==
    /\ Emitted(1) = <<[type |-> "text", arg |-> "p"], [type |-> "tool_use", arg |-> "T"],
                      [type |-> "text", arg |-> "q"]>>
    /\ \E m \in Range(messagesCacheRef[TargetId(calls[1])]) :
          /\ m.id = AssistantId(1)
          /\ m.contentBlocks = <<TextBlock(<<"p">>), ToolBlock(NewTool("T")),
                                 TextBlock(<<"q">>)>>

----------------------------------------------------------------------------
\* stream i has delivered a tool_use event with id t
Introduced(i, t) ==
    \E k \in 1..Len(log) : log[k] = Event(i, "tool_use", t, FALSE)

\* C17: a tool_result whose id no tool_use of the response has introduced
\* changes neither the tool calls, the content blocks and the content of the
\* response, nor any cached or visible message.
C17_UnknownToolResultNoOp ==
    [][\A t \in AssemblyTools, e \in BOOLEAN :
          (AssemblyToolResult(t, e) /\ ~Introduced(1, t)) =>
             /\ calls' = calls
             /\ messagesCacheRef' = messagesCacheRef
             /\ messages' = messages]_vars

\* a result for U arrived after text and a tool_use T: T is unresolved
C17_Witness ==
    /\ EventsOf(1) = <<Event(1, "text", "p", FALSE), Event(1, "tool_use", "T", FALSE),
                       Event(1, "tool_result", "U", TRUE)>>
    /\ \E m \in Range(messagesCacheRef[TargetId(calls[1])]) :
          /\ m.id = AssistantId(1)
          /\ m.toolCalls = <<NewTool("T")>>
          /\ m.contentBlocks = <<TextBlock(<<"p">>), ToolBlock(NewTool("T"))>>

----------------------------------------------------------------------------
\* the text of the text blocks, in order
RECURSIVE TextOf(_)
TextOf(blocks) ==
    IF blocks = <<>> THEN <<>>
    ELSE TextOf(SubSeq(blocks, 1, Len(blocks) - 1))
         \o (IF blocks[Len(blocks)].type = "text"
             THEN blocks[Len(blocks)].content ELSE <<>>)

\* C18: while a stream is open, the content of its assistant message in the
\* cache is the text of the text blocks of that message, in order.
C18_ContentMatchesBlocks ==
    \A i \in StreamIds :
        Live(i) =>
            \A m \in Range(messagesCacheRef[TargetId(calls[i])]) :
                m.id = AssistantId(i) => m.content = TextOf(m.contentBlocks)

\* C19: a tool call is created unresolved, and once a tool_result has set
\* its result and error flag no later step changes them.
C19_ToolResolvedOnce ==
    [][\A i \in StreamIds :
          /\ \A k \in 1..Len(calls'[i].toolCalls) :
                k > Len(calls[i].toolCalls) =>
                   /\ calls'[i].toolCalls[k].result = ABSENT
                   /\ calls'[i].toolCalls[k].isError = ABSENT
          /\ \A k \in 1..Len(calls[i].toolCalls) :
                calls[i].toolCalls[k].result # ABSENT =>
                   /\ k <= Len(calls'[i].toolCalls)
                   /\ calls'[i].toolCalls[k] = calls[i].toolCalls[k]]_vars

\* the tool calls of the tool-use blocks, in order
ToolsOf(blocks) ==
    LET sel == SelectSeq(blocks, LAMBDA b : b.type = "tool_use")
    IN [k \in 1..Len(sel) |-> sel[k].tool]

\* C20: in every assistant message of the cache, the tool-call list is the
\* list of the tool calls of its tool-use blocks, in order and with the same
\* result and error fields.
C20_ToolViewsInSync ==
    \A key \in Keys :
        \A m \in Range(messagesCacheRef[key]) :
            m.id.k = "assistant" => m.toolCalls = ToolsOf(m.contentBlocks)

----------------------------------------------------------------------------
\* C21: a frame whose payload is not valid JSON is dropped: the step that
\* reads it leaves the stream open and changes nothing of the response under
\* assembly, the cache, the visible list, the loading indicator, the stream
\* registry, the session store or the rejected promises, so the frames
\* before and after it are processed as if it were absent.
MalformedStep(i) ==
    /\ Len(log') = Len(log) + 1
    /\ log'[Len(log')].type = "malformed"
    /\ log'[Len(log')].stream = i

C21_MalformedFrameDropped ==
    [][\A i \in StreamIds :
          MalformedStep(i) =>
              /\ calls[i].pc = "open"
              /\ UNCHANGED <<calls, messagesCacheRef, messages, isLoading,
                             sessionId, activeSessionRef, streamsRef, status,
                             fetches, thrown>>]_vars

\* a malformed frame between two text events, both fragments published
C21_Witness ==
    /\ Len(log) = 4
    /\ log[2].type = "text"
    /\ log[3].type = "malformed"
    /\ log[4].type = "text"
    /\ calls[1].pc = "open"
    /\ calls[1].assistantContent = <<log[2].arg, log[4].arg>>
    /\ \E m \in Range(messagesCacheRef[TargetId(calls[1])]) :
           Published(1, m) /\ m.content = calls[1].assistantContent

----------------------------------------------------------------------------
\* C22: the events dispatched depend only on the bytes read so far, not on
\* how they were cut into chunks: they are the events of the complete lines
\* of those bytes, in wire order; the piece after the last newline is held in
\* the buffer, unparsed; once the whole body has been read, the events are
\* those the frames of the body encode.
RECURSIVE EventsOfFrames(_)
EventsOfFrames(frames) ==
    IF frames = <<>> THEN <<>>
    ELSE (IF Head(frames).event = NONE THEN <<>>
          ELSE <<[payload |-> Head(frames).event]>>)
         \o EventsOfFrames(Tail(frames))

\* the number of frames wholly contained in the first n bytes
RECURSIVE WholeFrames(_, _)
WholeFrames(frames, n) ==
    IF frames = <<>> \/ Len(Head(frames).bytes) > n THEN 0
    ELSE 1 + WholeFrames(Tail(frames), n - Len(Head(frames).bytes))

C22_ChunkingIndependent ==
    LET whole == WholeFrames(wire, delivered)
        read == SubSeq(BytesOf(wire), 1, delivered)
        rest == SubSeq(read, Len(BytesOf(SubSeq(wire, 1, whole))) + 1, Len(read))
    IN /\ dispatched = EventsOfFrames(SubSeq(wire, 1, whole))
       /\ buffer = Decode(<<>>, rest).chars
       /\ decoder = Decode(<<>>, rest).held

\* a chunk ended inside a two-byte character of the second event frame, after
\* the first frame was dispatched
C22_Witness ==
    /\ dispatched # <<>>
    /\ StartsWith(buffer, MARKER)
    /\ decoder = <<LEAD>>
    /\ delivered < Len(BytesOf(wire))

----------------------------------------------------------------------------
\* C23: a list handed out by the cache or to the visible state, read with
\* its messages and content blocks, is the same after every later update as
\* when it was handed out.
ReadBlock(h, a) ==
    IF h[a].type = "tool_use"
    THEN [type |-> "tool_use", tool |-> h[h[a].tool]]
    ELSE [type |-> "text", content |-> h[a].content]

\* what a holder of the list reads through its references
ReadList(h, list) ==
    [k \in 1..Len(list) |->
        [id |-> list[k].id,
         content |-> list[k].content,
         contentBlocks |-> [j \in 1..Len(list[k].contentBlocks) |->
                               ReadBlock(h, list[k].contentBlocks[j])],
         toolCalls |-> [j \in 1..Len(list[k].toolCalls) |->
                           h[list[k].toolCalls[j]]]]]

C23_SnapshotsUnchanged ==
    [][\A list \in snapshots : ReadList(heap', list) = ReadList(heap, list)]_vars

----------------------------------------------------------------------------
\* C24: when a transcript fetch succeeds, the cache entry of the requested
\* session and the visible list are the user and assistant messages of the
\* response, in server order, each with a fresh identifier and with the
\* concatenation of the text parts of its content (or its string content).
FromUserOrAssistant(data) ==
    SelectSeq(data, LAMBDA msg : msg.role = "user" \/ msg.role = "assistant")

RECURSIVE Concat(_)
Concat(texts) ==
    IF texts = <<>> THEN <<>> ELSE Head(texts) \o Concat(Tail(texts))

PlainText(content) ==
    IF content.array
    THEN LET textParts == SelectSeq(content.value, LAMBDA part : part.type = "text")
         IN Concat([k \in 1..Len(textParts) |-> textParts[k].text])
    ELSE content.value

\* the list is the plain form of the transcript
Seeds(list, data) ==
    LET kept == FromUserOrAssistant(data)
    IN /\ Len(list) = Len(kept)
       /\ \A k \in 1..Len(kept) :
             /\ list[k].role = kept[k].role
             /\ list[k].content = PlainText(kept[k].content)
       /\ \A j, k \in 1..Len(list) : j # k => list[j].id # list[k].id

C24_MissSeedsTranscript ==
    [][\A f \in fetches :
          FetchDone(f, TRUE) =>
              /\ Seeds(messagesCacheRef'[f.sid], transcripts[f.sid])
              /\ messages' = messagesCacheRef'[f.sid]
              /\ \A k \in Keys \ {f.sid} : messagesCacheRef'[k] = messagesCacheRef[k]
              /\ ~isLoading']_vars

\* a transcript of a system message and a user message whose content is an
\* array of text, tool_use and text parts has been loaded
C24_Witness ==
    /\ sessionId \in Sessions
    /\ fetches = {}
    /\ nFetch = 1
    /\ \E k \in 1..Len(transcripts[sessionId]) :
          transcripts[sessionId][k].role = "system"
    /\ \E k \in 1..Len(transcripts[sessionId]) :
          /\ transcripts[sessionId][k].role = "user"
          /\ transcripts[sessionId][k].content.array
          /\ Len(transcripts[sessionId][k].content.value) = 3
    /\ Len(messages) = 1
    /\ messages[1].content = <<"b", "c">>
    /\ messagesCacheRef[sessionId] = messages

----------------------------------------------------------------------------
\* C25: the answer to a response submitted clears the pending action of its
\* session when it is a success and leaves the pending actions as they are
\* when it is a failure; dismissing the modal clears the pending action of
\* the session shown; once cleared, the modal is not shown for that session.
ModalShownFor(s) == sessionId = s /\ ShowPendingModal

C25_PendingActionCleared ==
    [][/\ \A sub \in submissions :
             /\ SubmitDone(sub, TRUE) =>
                   /\ pendingAction'[sub.sessionId] = NOACTION
                   /\ ~ModalShownFor(sub.sessionId)'
             /\ SubmitDone(sub, FALSE) =>
                   /\ pendingAction' = pendingAction
                   /\ status' = status
       /\ Dismiss =>
             /\ pendingAction'[sessionId] = NOACTION
             /\ ~ShowPendingModal']_vars

\* one response was answered with success and its session has no pending
\* action; another was answered with a failure and its session still shows
\* the modal
C25_Witness ==
    /\ \E ans \in answers :
          ans.success /\ pendingAction[ans.sessionId] = NOACTION
    /\ \E ans \in answers :
          /\ ~ans.success
          /\ IsAction(pendingAction[ans.sessionId])
          /\ pendingAction[ans.sessionId].id = ans.action
          /\ ModalShownFor(ans.sessionId)

\* C26: a needs_attention event that carries a pending action makes it the
\* pending action of its session, which then waits for the user; the event
\* raises a toast for its session when that session is not the active one,
\* and leaves the toast as it is when it is the active one.
C26_ToastIffNotActive ==
    [][\A s \in Sessions, a \in PendingActions \cup {NOACTION} :
          NeedsAttention(s, a) =>
              /\ a # NOACTION =>
                    pendingAction'[s] = a /\ status'[s] = "waiting_user"
              /\ s # sessionId =>
                    /\ toast' = [sessionId |-> s, n |-> nToasts + 1]
                    /\ nToasts' = nToasts + 1
              /\ s = sessionId => toast' = toast /\ nToasts' = nToasts]_vars

\* two events arrived while A was shown: the one for B raised the only toast
C26_Witness ==
    /\ sessionId = "A"
    /\ IsAction(pendingAction["A"])
    /\ IsAction(pendingAction["B"])
    /\ nToasts = 1
    /\ toast = [sessionId |-> "B", n |-> 1]

\* C27: whenever the connection has been closed by an error while
\* ChatInterface is mounted and knows a session, a connection is open again
\* later, or the component has been unmounted; this after every error, however
\* many came before.
AttentionLive == Attention /\ WF_vars(Reconnect)

C27_ReconnectsAfterError ==
    (mounted /\ knownSessionIds # {} /\ eventSourceRef = "closed")
        ~> (eventSourceRef = "open" \/ ~mounted)

\* the connection is closed and the reconnection timer is pending
C27_Witness ==
    /\ mounted
    /\ knownSessionIds # {}
    /\ eventSourceRef = "closed"
    /\ reconnectTimeoutRef

----------------------------------------------------------------------------
\* C28: a timestamp that denotes Unix seconds in the range is listed as the
\* date that many seconds after the epoch, a timestamp that denotes a date as
\* that date, and any other string, the empty one included, as the time of
\* the call; two timestamps that denote the same instant, one in seconds and
\* one as a date, are listed as the same date.
Denoted(text) == CHOOSE t \in Timestamps : t.chars = text

Listed(text, date) ==
    IF Denoted(text).kind = "none" THEN date = NOW
    ELSE date = DateAt(Denoted(text).ms)

C28_TimestampParsing ==
    sidebarSession.listed =>
        /\ Listed(apiSession.created_at, sidebarSession.createdAt)
        /\ Listed(apiSession.modified_at, sidebarSession.lastMessageAt)
        /\ (/\ Denoted(apiSession.created_at).kind = "unix"
            /\ Denoted(apiSession.modified_at).kind = "date"
            /\ Denoted(apiSession.created_at).ms = Denoted(apiSession.modified_at).ms)
           => sidebarSession.createdAt = sidebarSession.lastMessageAt

\* a session created at an instant given in Unix seconds and modified at the
\* same instant given in ISO 8601 has been listed with one date
C28_Witness ==
    /\ sidebarSession.listed
    /\ Denoted(apiSession.created_at).kind = "unix"
    /\ Denoted(apiSession.modified_at).kind = "date"
    /\ Denoted(apiSession.created_at).ms = Denoted(apiSession.modified_at).ms
    /\ ~sidebarSession.createdAt.now
    /\ sidebarSession.createdAt = sidebarSession.lastMessageAt

----------------------------------------------------------------------------
\* C29: once the controller of a stream has been aborted, no event of that
\* stream is processed that changes a cache entry, the active session or a
\* session status.
Triggered(i) == calls[i].pc \in {"aborted", "cancelled"}

EventOf(i) ==
    /\ Len(log') = Len(log) + 1
    /\ log'[Len(log')].stream = i

----------------------------------------------------------------------------
\* C30: an event of a stream changes no cache entry but that of the session
\* the stream was started on; for a stream started on a new conversation,
\* that of the provisional key until its own session_init, the provisional
\* key and the identifier resolved at that session_init, and the entry of
\* that identifier afterwards. The session that is active when the event is
\* processed plays no part.
Targets(i) ==
    IF calls[i].currentSessionId # NONE THEN {calls[i].currentSessionId}
    ELSE IF calls[i].resolvedSessionId # NONE THEN {calls[i].resolvedSessionId}
    ELSE IF calls'[i].resolvedSessionId # NONE
         THEN {NewKey, calls'[i].resolvedSessionId}
    ELSE {NewKey}

C30_EventsTargetOwnSession ==
    [][\A i \in StreamIds :
          EventOf(i) =>
              \A k \in Keys :
                  messagesCacheRef'[k] # messagesCacheRef[k] => k \in Targets(i)]_vars

\* the last event processed is a text event of a stream whose session the
\* user has left for another one, and the assistant message of the stream is
\* in the entry of the stream's session and in no other
C30_Witness ==
    \E i \in StreamIds :
        /\ calls[i].nav = "away"
        /\ calls[i].resolvedSessionId # NONE
        /\ activeSessionRef \in Sessions \ {calls[i].resolvedSessionId}
        /\ log # <<>>
        /\ log[Len(log)].stream = i
        /\ log[Len(log)].type = "text"
        /\ FindIndex(messagesCacheRef[calls[i].resolvedSessionId], AssistantId(i)) > 0
        /\ \A k \in Keys \ {calls[i].resolvedSessionId} :
              FindIndex(messagesCacheRef[k], AssistantId(i)) = 0

----------------------------------------------------------------------------
\* C31: no event of a stream changes the session that is active: while a
\* session is shown, the processing of a stream event leaves sessionId as it
\* is (only loadSession, resetSession and sendMessage change it).
C31_OnlyUserChangesActive ==
    [][\A i \in StreamIds :
          (EventOf(i) /\ sessionId # NONE) => sessionId' = sessionId]_vars

----------------------------------------------------------------------------
\* C32: a key of the registry holds a controller exactly when a stream bound
\* to that key is live, and the controller it holds is that stream's.
C32_RegistryTracksLive ==
    \A k \in Keys :
        /\ streamsRef[k] # 0 <=>
              \E i \in StreamIds : Live(i) /\ TargetId(calls[i]) = k
        /\ streamsRef[k] # 0 =>
              /\ Live(streamsRef[k])
              /\ TargetId(calls[streamsRef[k]]) = k

----------------------------------------------------------------------------
\* C33: a message that is in the cache entry of a session stays in that
\* entry, and the messages of the entry keep their relative order, at every
\* step.
Kept(old, new) ==
    \A a \in 1..Len(old) :
        /\ FindIndex(new, old[a].id) > 0
        /\ \A b \in (a + 1)..Len(old) :
              FindIndex(new, old[a].id) < FindIndex(new, old[b].id)

C33_EntriesOnlyGrow ==
    [][\A s \in Sessions : Kept(messagesCacheRef[s], messagesCacheRef'[s])]_vars

----------------------------------------------------------------------------
\* C34: no message of the cache entry of a session belongs to another
\* session, where a message belongs to the session whose transcript it was
\* loaded from, or to the session of the stream whose user message,
\* assistant message or error message it is (to none while that stream has
\* no session).
Owner(m) ==
    IF m.id.k = "hist" THEN m.content[1]
    ELSE calls[m.id.n].resolvedSessionId

C34_NoCrossSessionMessages ==
    \A s \in Sessions :
        \A k \in 1..Len(messagesCacheRef[s]) :
            Owner(messagesCacheRef[s][k]) \in {s, NONE}

----------------------------------------------------------------------------
\* C35: whenever no live stream is bound to the provisional key, the cache
\* holds no message under the provisional key.
C35_ProvisionalEntryEmpty ==
    (\A i \in StreamIds : ~(Live(i) /\ calls[i].resolvedSessionId = NONE))
        => messagesCacheRef[NewKey] = <<>>

----------------------------------------------------------------------------
\* C36: once a stream whose session_init set the status of its session to
\* running has ended (the body closed, the transport failed, or the stream
\* was cancelled), the status of that session is eventually other than
\* running.
Ended(i) == calls[i].pc \in {"closed", "failed", "cancelled"}

C36_NotLeftRunning ==
    \A i \in StreamIds, s \in Sessions :
        (Ended(i) /\ calls[i].inited /\ calls[i].resolvedSessionId = s)
            ~> (status[s] # "running")


----------------------------------------------------------------------------
\* C37: after any sequence of needs_attention and status_update events and
\* of answers and dismissals by the user, a session of the store has status
\* waiting_user if and only if its pending action is not null.
C37_WaitingIffPending ==
    \A s \in Sessions :
        status[s] = "waiting_user" <=> IsAction(pendingAction[s])


----------------------------------------------------------------------------
\* C38: after any sequence of needs_attention, status_update and progress
\* notifications, also for a session the store has never seen, each session
\* the store holds has a status among idle, running, waiting_user, completed
\* and error.  A session is held once one of the fields of its entry was
\* written.
Stored(s) ==
    \/ status[s] # ABSENT
    \/ pendingAction[s] # UNSET
    \/ progressMessage[s] # ABSENT

C38_EntriesWellFormed ==
    \A s \in Sessions : Stored(s) => status[s] \in AgentStatus


----------------------------------------------------------------------------
\* C39: a toast stays until the user dismisses it, the user navigates
\* through it, or its own timer fires: a step that takes the toast shown
\* away is one of these three, never the timer of an earlier toast.
C39_ToastKeepsItsInterval ==
    [][(toast # NOTOAST /\ toast' = NOTOAST) =>
          (ToastDismiss \/ ToastNavigate \/ ToastTimer(toast.n))]_vars

====
